---- MODULE Spec2Model ----
(***************************************************************************)
(* A model of the StarSync sync engine (src/src/sync): the validator       *)
(* handshake between the driver and the worker, and the phases of one sync *)
(* cycle of SyncManager::sync_inner acting on a source library and on a    *)
(* device.                                                                 *)
(*                                                                         *)
(* Paths are sequences of components, and every component is one letter,   *)
(* so that lowercasing a path (to_string_lossy().to_lowercase()) is the    *)
(* letter-wise map it is in the code.  File names of playlists are         *)
(* sequences of tokens (prefix, number, suffix).                           *)
(***************************************************************************)
EXTENDS Integers, Sequences, FiniteSets, TLC

\* ------------------------------------------------------------------ bounds

\* Track identifiers are 1..MaxTrack.
MaxTrack == 2

\* ------------------------------------------------------- generic helpers

Range(f) == {f[x] : x \in DOMAIN f}

RECURSIVE SeqOfSet(_)
\* The elements of a finite set of comparable values in one fixed order; it
\* stands for the iteration order of a HashSet / HashMap, on which no result of a
\* cycle depends.
SeqOfSet(S) ==
  IF S = {} THEN <<>>
  ELSE LET x == CHOOSE y \in S : TRUE IN <<x>> \o SeqOfSet(S \ {x})

RECURSIVE SumOver(_, _)
SumOver(f, S) ==
  IF S = {} THEN 0
  ELSE LET x == CHOOSE y \in S : TRUE IN f[x] + SumOver(f, S \ {x})

\* The empty function (an empty HashMap).
EmptyMap == [x \in {} |-> 0]

\* Option<T>: None is the empty tuple and Some(x) the tuple of x.
NoneV == <<>>
Some(x) == <<x>>
IsSome(o) == o # <<>>

\* ------------------------------------------------------------------ paths

\* to_lowercase() on one letter.
LowerChar(c) ==
  CASE c = "A" -> "a"
    [] c = "B" -> "b"
    [] c = "D" -> "d"
    [] c = "M" -> "m"
    [] c = "X" -> "x"
    [] c = "MUSIC" -> "music"
    [] OTHER -> c

\* Fault variant of ToLower: the path as it is.
SameCase(p) == p

\* PathBuf::from(p.to_string_lossy().to_lowercase())
ToLower(p) == [i \in DOMAIN p |-> LowerChar(p[i])]

\* Path::strip_prefix: Some(the rest of p) when pre is a prefix of p, else None.
StripPrefix(p, pre) ==
  IF Len(pre) <= Len(p) /\ SubSeq(p, 1, Len(pre)) = pre
  THEN Some(SubSeq(p, Len(pre) + 1, Len(p)))
  ELSE NoneV

\* MUSIC_FOLDER_NAME, as a path of one component.
MusicFolder == <<"music">>

\* ----------------------------------------------------- sync/utils.rs

\* Fault variant of CaseInsensitiveDifference: the paths are compared as they are.
CaseSensitiveDifference(left, right) == left \ right

\* case_insensitive_difference(left, right), collected: other is right lowercased,
\* and an element of left is kept when its lowercased form is not in other.
CaseInsensitiveDifference(left, right) ==
  LET other == {ToLower(r) : r \in right}
  IN {elt \in left : ToLower(elt) \notin other}

RatingsPrefix == "Favourites - "
RatingsSuffix == " stars.m3u"

\* The characters of the tokens the model uses as the number part of a file
\* name; every other token is one character that is no digit.
Chars(tok) ==
  CASE tok = "" -> <<>>
    [] tok \in {"0", "1", "2", "3", "4", "5", "6", "7", "8", "9"} -> <<tok>>
    [] tok = "01" -> <<"0", "1">>
    [] tok = "+5" -> <<"+", "5">>
    [] tok = "+" -> <<"+">>
    [] tok = "-1" -> <<"-", "1">>
    [] tok = " 1" -> <<" ", "1">>
    [] tok = "256" -> <<"2", "5", "6">>
    [] tok = "one" -> <<"o", "n", "e">>
    [] OTHER -> <<"?">>

\* char::to_digit(10); -1 stands for None.
ToDigit(c) ==
  CASE c = "0" -> 0 [] c = "1" -> 1 [] c = "2" -> 2 [] c = "3" -> 3
    [] c = "4" -> 4 [] c = "5" -> 5 [] c = "6" -> 6 [] c = "7" -> 7
    [] c = "8" -> 8 [] c = "9" -> 9 [] OTHER -> -1

RECURSIVE ParseDigits(_, _)
\* The digits of u8::from_str_radix(.., 10) after acc: -1 stands for the Err
\* of a character that is no digit and of a value above u8::MAX.
ParseDigits(chars, acc) ==
  IF chars = <<>> THEN acc
  ELSE LET d == ToDigit(Head(chars))
       IN IF d < 0 \/ acc * 10 + d > 255 THEN -1
          ELSE ParseDigits(Tail(chars), acc * 10 + d)

\* digit.parse::<NonZeroU8>().ok() on a token: the integers of Rust parse an
\* optional + sign and then one decimal digit or more; an empty string, a lone
\* sign, a - sign, a blank or a value above u8::MAX is an Err, and so is the
\* value 0 for a NonZeroU8.  0 stands for a failed parse.
ParseNonZeroU8(tok) ==
  LET chars == Chars(tok)
      digits == IF chars # <<>> /\ Head(chars) = "+" THEN Tail(chars) ELSE chars
      v == IF digits = <<>> THEN -1 ELSE ParseDigits(digits, 0)
  IN IF v > 0 THEN v ELSE 0

\* ActualPlaylistKind::classify(name).stars(): n in 1..5 for a ratings list, and 0
\* (the Rating None) for a regular list.  A file name is a sequence of tokens;
\* strip_prefix and strip_suffix succeed when the first token is the prefix and the
\* last one is the suffix.  ParseNonZeroU8 gives 0 when the parse fails.
ClassifyStars(name) ==
  IF Len(name) = 3 /\ name[1] = RatingsPrefix /\ name[3] = RatingsSuffix
  THEN LET n == ParseNonZeroU8(name[2])
       IN IF n # 0 /\ n <= 5 THEN n ELSE 0
  ELSE 0

\* ActualPlaylistKind::classify(name)
Classify(name) ==
  LET n == ClassifyStars(name)
  IN IF n # 0 THEN [kind |-> "Ratings", stars |-> n]
     ELSE [kind |-> "Regular", name |-> name]

\* favorites_playlist_name(rating) with the other spelling of the prefix.
FavoritesPlaylistNameAmerican(rating) == <<"Favorites - ", ToString(rating), RatingsSuffix>>

\* favorites_playlist_name(rating)
FavoritesPlaylistName(rating) == <<RatingsPrefix, ToString(rating), RatingsSuffix>>

\* file_path.extension() == Some("m3u")
HasM3uExtension(name) ==
  Len(name) > 0 /\ name[Len(name)] \in {".m3u", RatingsSuffix}

\* ------------------------------------------- three-way merge (diffy)

RECURSIVE LcsLen(_, _, _, _)
\* The length of a longest common subsequence of X[i..] and Y[j..].
LcsLen(X, Y, i, j) ==
  IF i > Len(X) \/ j > Len(Y) THEN 0
  ELSE IF X[i] = Y[j] THEN 1 + LcsLen(X, Y, i + 1, j + 1)
  ELSE LET a == LcsLen(X, Y, i + 1, j)
           b == LcsLen(X, Y, i, j + 1)
       IN IF a >= b THEN a ELSE b

RECURSIVE LcsMatch(_, _, _, _)
\* The matching of one longest common subsequence of X[i..] and Y[j..]: the set
\* of pairs <<position in X, position in Y>> of the elements the diff keeps.
LcsMatch(X, Y, i, j) ==
  IF i > Len(X) \/ j > Len(Y) THEN {}
  ELSE IF X[i] = Y[j] THEN {<<i, j>>} \cup LcsMatch(X, Y, i + 1, j + 1)
  ELSE IF LcsLen(X, Y, i + 1, j) >= LcsLen(X, Y, i, j + 1)
       THEN LcsMatch(X, Y, i + 1, j)
       ELSE LcsMatch(X, Y, i, j + 1)

\* Fault variant of MergeChunk: the chunk of the source is kept, whatever the
\* device did.
MergeChunkOfSource(a, l, d) == l

\* The resolution of one unstable chunk (a of the ancestor, l of the source, d of
\* the device): the side that changed wins; when both changed differently, the
\* default resolution keeps the source's side.
MergeChunk(a, l, d) ==
  IF l = a THEN d
  ELSE IF d = a THEN l
  ELSE l

RECURSIVE MergeFrom(_, _, _, _, _, _, _, _)
\* diff3 from the positions ia, il, id on, with the matchings ml (ancestor to
\* source) and md (ancestor to device): the next ancestor element matched on both
\* sides ends the unstable chunk before it and is kept.
MergeFrom(A, L, D, ml, md, ia, il, id) ==
  LET sync == {k \in ia..Len(A) :
                 /\ \E j \in il..Len(L) : <<k, j>> \in ml
                 /\ \E j \in id..Len(D) : <<k, j>> \in md}
  IN IF sync = {}
     THEN MergeChunk(SubSeq(A, ia, Len(A)), SubSeq(L, il, Len(L)), SubSeq(D, id, Len(D)))
     ELSE LET k == CHOOSE x \in sync : \A y \in sync : x <= y
              jl == CHOOSE j \in il..Len(L) : <<k, j>> \in ml
              jd == CHOOSE j \in id..Len(D) : <<k, j>> \in md
          IN MergeChunk(SubSeq(A, ia, k - 1), SubSeq(L, il, jl - 1), SubSeq(D, id, jd - 1))
             \o <<A[k]>>
             \o MergeFrom(A, L, D, ml, md, k + 1, jl + 1, jd + 1)

\* diffy::merge_custom(ancestor, ours, theirs) on sequences of TrackIds.
ThreeWayMerge(A, L, D) ==
  MergeFrom(A, L, D, LcsMatch(A, L, 1, 1), LcsMatch(A, D, 1, 1), 1, 1, 1)

\* ------------------------------------------------------------------ state

VARIABLES
  \* the source library
  srcLists,           \* PlaylistId -> [name, tracks]: the playlists of the source
  srcTracks,          \* TrackId -> [path, rating, computed, size]: its tracks
  \* the device
  devMusic,           \* the relative paths of the files of the music folder
  devLists,           \* file name -> entries: the .m3u files of the StarSync folder
  devInfo,            \* Option<SyncInfo>: config/sync-info.json
  \* the SyncManager
  config,             \* [playlists, include_ratings, use_computed_ratings]
  mgrInfo,            \* SyncManager.previous_sync_infos, read by with_device
  earlier,            \* the earlier cycles of this device: [result, info] of each
  \* one call of Playlist::change_contents_to on a source
  edit,               \* [source, list, new_content, k, i, pc, attempts]
  exit_code,          \* Option<i32>: the exit code of the process of the driver
  cli,                \* [pc, user_input, read]: cli_sync_device on the driver thread
  \* one call of a function of sync/utils, sync/info or device
  probe,              \* [fn, input, done, output]
  \* the channels between the driver and the worker
  outbound,           \* validators sent by the worker, not yet received
  inbound,            \* acknowledged validators sent by the driver, not yet received
  outRxAlive,         \* the driver still holds the receiver of outbound
  inTxAlive,          \* the driver still holds the sender of inbound
  statusRxAlive,      \* the driver still holds the status receiver
  \* status::Sender
  progress,           \* the Progress messages passed to send, in order
  n_warns,            \* Sender.n_warns
  warnSent,           \* the number of Warning messages passed to send
  warnsByPhase,       \* for each message of progress, the warnings of its phase
  \* the worker: start_sync and the locals of sync_inner
  pc,                 \* the position of the worker
  result,             \* what start_sync returned
  previous_sync_info, \* Option<SyncInfo> read by sync_inner
  files_on_device,    \* the relative paths found by files_on_device
  file_set,           \* the FileSet of required_files
  playlists,          \* the PlaylistsSet of update_playlists
  \* the calls made on the source and on the device, in order
  ccCalls,            \* change_contents_to: [id, content, ok]
  srCalls,            \* set_rating: [id, rating, ok]
  devLog,             \* device writes: [op, target, ok]
  pathErrs,           \* the tracks whose absolute_path returned Err in required_files
  faults              \* the number of items the environment has made fail

srcVars == <<srcLists, srcTracks>>
devVars == <<devMusic, devLists, devInfo>>
chanVars == <<outbound, inbound, outRxAlive, inTxAlive, statusRxAlive>>
statusVars == <<progress, n_warns, warnSent, warnsByPhase>>
localVars == <<previous_sync_info, files_on_device, file_set, playlists>>
callVars == <<ccCalls, srCalls, devLog, pathErrs>>
mgrVars == <<config, mgrInfo, earlier, exit_code, cli, edit, probe>>
vars == <<srcVars, devVars, mgrVars, chanVars, statusVars, pc, result,
          localVars, callVars, faults>>

\* ------------------------------------------------------- the universe

\* The items the environment makes fail in one cycle are at most MaxFaults (a
\* file whose push fails twice is one item).
MaxFaults == 1

TrackIds == 1..MaxTrack

\* The sequences of at most MaxTrack tracks, repeated tracks included.
TrackSeqs == UNION {[1..n -> TrackIds] : n \in 0..MaxTrack}

\* No call of a function is being followed on its own.
NoProbe == [fn |-> "none", input |-> <<>>, done |-> TRUE, output |-> <<>>]

\* cli_sync_device before it received the validator: nothing read from stdin,
\* no message of the status channel received.
NoCli == [pc |-> "recv", user_input |-> <<>>, read |-> 0]

\* No call of change_contents_to is being followed step by step.
NoEdit ==
  [source |-> "none", list |-> <<>>, new_content |-> <<>>, k |-> 0, i |-> 0,
   pc |-> "none", attempts |-> 0]

\* The folder of the source that holds the music.
LibraryRoot == <<"c", "m">>

\* The location of a track's file below LibraryRoot.
TrackRel(t) ==
  CASE t = 1 -> <<"a">>
    [] t = 2 -> <<"B">>
    [] t = 3 -> <<"d", "x">>
    [] OTHER -> <<"d", "a">>

\* The same location in the other letter case.
OtherCase(p) ==
  [i \in DOMAIN p |-> IF LowerChar(p[i]) = p[i]
                      THEN (CASE p[i] = "a" -> "A" [] p[i] = "x" -> "X"
                              [] p[i] = "d" -> "D" [] OTHER -> p[i])
                      ELSE LowerChar(p[i])]

\* utils::current_hostname()
CurrentHostname == "this-host"

\* sanitize_filename::sanitize on the playlist names of the model.
Sanitize(name) == IF name = "P?" THEN "P" ELSE name

\* Playlist::suitable_filename
SuitableFilename(name) == <<Sanitize(name), ".m3u">>

\* source::create_m3u: every relative path gets the prefix; the lines are the
\* entries.
CreateM3u(rels, prefix) == [i \in DOMAIN rels |-> prefix \o rels[i]]

\* The identity order of the tracks, and its reverse.
IdOrder == [i \in 1..MaxTrack |-> i]
RevOrder == [i \in 1..MaxTrack |-> MaxTrack + 1 - i]

\* A manifest as a previous cycle on host wrote it for the playlist P of order
\* and the further tracks of others (those of other playlists of that cycle),
\* with the ratings rm.
ManifestOf(host, order, others, rm) ==
  [hostname |-> host,
   common_ancestor |-> LibraryRoot,
   song_data |-> [k \in {ToLower(TrackRel(t)) : t \in Range(order) \cup others} |->
                    LET t == CHOOSE u \in Range(order) \cup others :
                               ToLower(TrackRel(u)) = k
                    IN [id |-> t, rating |-> rm[t]]],
   playlists |-> [f \in {SuitableFilename("P")} |-> [id |-> "P", tracks |-> order]]]

\* The rating lists of a device on which the tracks of present have the ratings rd,
\* without the lists of the ratings in missing.
RatingLists(present, rd, missing) ==
  [f \in {FavoritesPlaylistName(n) : n \in (1..5) \ missing} |->
     LET n == ClassifyStars(f)
     IN CreateM3u(SeqOfSet({TrackRel(t) : t \in {u \in present : rd[u] = n}}), MusicFolder)]

\* f extended by g (g wins on the common keys).
Override(f, g) ==
  [k \in DOMAIN f \cup DOMAIN g |-> IF k \in DOMAIN g THEN g[k] ELSE f[k]]

\* ------------------------------------------------------ sync/info.rs

\* SyncInfo::id_for_relative_path
IdForRelativePath(si, rel) ==
  LET lowercase_path == ToLower(rel)
  IN IF lowercase_path \in DOMAIN si.song_data
     THEN Some(si.song_data[lowercase_path].id)
     ELSE NoneV

\* SyncInfo::rating_for_id: the rating of an entry of song_data with this id, and
\* None (0) without such an entry.
RatingForId(si, needle) ==
  LET hits == {k \in DOMAIN si.song_data : si.song_data[k].id = needle}
  IN IF hits = {} THEN 0 ELSE si.song_data[CHOOSE k \in hits : TRUE].rating

\* SyncInfo::has_playlist_file_name
HasPlaylistFileName(si, needle) == \E f \in DOMAIN si.playlists : f = needle

\* ---------------------------------------------------- sync/status.rs

\* Fault variant of WarningsAfterSend: a warning counts only when it is delivered.
WarningsIfDelivered(n, k, alive) == IF alive THEN n + k ELSE n

\* Sender::send on k Warning messages: n_warns.fetch_add(1) for each of them,
\* before tx.send and whatever its result.
WarningsAfterSend(n, k, alive) == n + k

\* Sender::send for the Progress messages progs and k Warning messages.
Send(progs, k) ==
  /\ progress' = progress \o progs
  /\ n_warns' = WarningsAfterSend(n_warns, k, statusRxAlive)
  /\ warnSent' = warnSent + k
  /\ warnsByPhase' = warnsByPhase \o [i \in DOMAIN progs |-> IF i = 1 THEN k ELSE 0]

\* Sender::warnings_count
WarningsCount(n) == n

\* The environment makes k more items (a file, a folder, a list, a track) fail.
Inject(k) == faults + k <= MaxFaults /\ faults' = faults + k

B2N(b) == IF b THEN 1 ELSE 0

\* ------------------------------------------------- the results of start_sync

Pending == [tag |-> "Pending", warnings |-> 0, error |-> ""]
OkWith(n) == [tag |-> "Ok", warnings |-> n, error |-> ""]
ErrOf(e) == [tag |-> "Err", warnings |-> 0, error |-> e]
Panicked == [tag |-> "Panic", warnings |-> 0, error |-> ""]

\* A return of start_sync.
Return(r) == pc' = "returned" /\ result' = r

\* The `?` of sync_inner on a phase that ended with a fatal error.
Fatal(e) == Return(ErrOf(e))

\* ------------------------------------------------------- SyncValidator

\* Fault variant of BuildValidator: a device without manifest counts as a
\* device of an unknown computer.
BuildValidatorStrict(previous_sync_infos) ==
  [last_sync_computer_mismatch |->
     IF IsSome(previous_sync_infos) /\ previous_sync_infos[1].hostname = CurrentHostname
     THEN NoneV
     ELSE Some(<<"", CurrentHostname>>)]

\* SyncValidator::build
BuildValidator(previous_sync_infos) ==
  [last_sync_computer_mismatch |->
     IF IsSome(previous_sync_infos) /\ previous_sync_infos[1].hostname # CurrentHostname
     THEN Some(<<previous_sync_infos[1].hostname, CurrentHostname>>)
     ELSE NoneV]

\* Fault variant of IsValid: every validator is accepted.
AlwaysValid(v) == TRUE

\* SyncValidator::is_valid
IsValid(v) == v.last_sync_computer_mismatch = NoneV

\* --------------------------------------------------------- the driver

\* The driver receives the validator and sends it back, acknowledging the
\* mismatch (clear) or not.
DriverAcknowledge ==
  /\ outbound # <<>>
  /\ inTxAlive
  /\ \E clear \in BOOLEAN :
       LET v == Head(outbound)
           acked == IF clear THEN [v EXCEPT !.last_sync_computer_mismatch = NoneV] ELSE v
       IN inbound' = Append(inbound, acked)
  /\ outbound' = Tail(outbound)
  /\ UNCHANGED <<srcVars, devVars, mgrVars, outRxAlive, inTxAlive,
                 statusRxAlive, statusVars, pc, result, localVars, callVars, faults>>

\* The driver drops the sender of the inbound channel without having answered.
DriverDropInbound ==
  /\ inTxAlive
  /\ inbound = <<>>
  /\ pc \in {"new", "recv"}
  /\ inTxAlive' = FALSE
  /\ UNCHANGED <<srcVars, devVars, mgrVars, outbound, inbound, outRxAlive,
                 statusRxAlive, statusVars, pc, result, localVars, callVars, faults>>

\* The driver drops the receiver of the outbound channel before the worker sends.
DriverDropOutbound ==
  /\ outRxAlive
  /\ pc = "new"
  /\ outRxAlive' = FALSE
  /\ UNCHANGED <<srcVars, devVars, mgrVars, outbound, inbound, inTxAlive,
                 statusRxAlive, statusVars, pc, result, localVars, callVars, faults>>

\* The driver drops the status receiver.
DriverDropStatus ==
  /\ statusRxAlive
  /\ pc \notin {"returned", "panicked"}
  /\ statusRxAlive' = FALSE
  /\ UNCHANGED <<srcVars, devVars, mgrVars, outbound, inbound, outRxAlive,
                 inTxAlive, statusVars, pc, result, localVars, callVars, faults>>

\* ------------------------------------------------- SyncManager::start_sync

\* Fault variant of NextPhase: the ratings are reverse-synced and pushed whatever
\* the config says.
NextPhaseAlwaysRatings(phase, include_ratings) ==
  CASE phase = "files_on_device" -> "reverse_sync_playlists"
    [] phase = "reverse_sync_playlists" -> "reverse_sync_ratings"
    [] phase = "reverse_sync_ratings" -> "required_files"
    [] phase = "required_files" -> "sync_files"
    [] phase = "sync_files" -> "update_playlists"
    [] phase = "update_playlists" -> "push_star_playlists"
    [] phase = "push_star_playlists" -> "update_sync_info"

\* Fault variant of NextPhase: the ratings are reverse-synced after the files
\* have been synced.
NextPhaseRatingsLate(phase, include_ratings) ==
  CASE phase = "files_on_device" -> "reverse_sync_playlists"
    [] phase = "reverse_sync_playlists" -> "required_files"
    [] phase = "required_files" -> "sync_files"
    [] phase = "sync_files" ->
         IF include_ratings THEN "reverse_sync_ratings" ELSE "update_playlists"
    [] phase = "reverse_sync_ratings" -> "update_playlists"
    [] phase = "update_playlists" ->
         IF include_ratings THEN "push_star_playlists" ELSE "update_sync_info"
    [] phase = "push_star_playlists" -> "update_sync_info"

\* The order of the calls of sync_inner: the phase that follows a phase that did
\* not end with a fatal error.
NextPhase(phase, include_ratings) ==
  CASE phase = "files_on_device" -> "reverse_sync_playlists"
    [] phase = "reverse_sync_playlists" ->
         IF include_ratings THEN "reverse_sync_ratings" ELSE "required_files"
    [] phase = "reverse_sync_ratings" -> "required_files"
    [] phase = "required_files" -> "sync_files"
    [] phase = "sync_files" -> "update_playlists"
    [] phase = "update_playlists" ->
         IF include_ratings THEN "push_star_playlists" ELSE "update_sync_info"
    [] phase = "push_star_playlists" -> "update_sync_info"

\* start_sync up to inbound.recv(): the validator is built and sent; send on a
\* channel without receiver is an Err, and expect panics.
StartSync ==
  /\ pc = "new"
  /\ IF outRxAlive
     THEN /\ outbound' = Append(outbound, BuildValidator(mgrInfo))
          /\ pc' = "recv"
          /\ result' = result
     ELSE /\ pc' = "panicked"
          /\ result' = Panicked
          /\ outbound' = outbound
  /\ UNCHANGED <<srcVars, devVars, mgrVars, inbound, outRxAlive, inTxAlive,
                 statusRxAlive, statusVars, localVars, callVars, faults>>

\* inbound.recv().expect(..) and the test of the acknowledged validator: recv
\* returns a queued validator, and is an Err (expect panics) once the queue is
\* empty and the sender dropped.  A valid validator starts sync_inner, which
\* sends Started and reads the manifest of the device.
RecvAck ==
  /\ pc = "recv"
  /\ \/ /\ inbound # <<>>
        /\ inbound' = Tail(inbound)
        /\ IF IsValid(Head(inbound))
           THEN /\ Send(<<"Started">>, 0)
                /\ previous_sync_info' = devInfo
                /\ pc' = "files_on_device"
                /\ result' = result
           ELSE /\ Return(ErrOf("SanityChecks"))
                /\ UNCHANGED <<statusVars, previous_sync_info>>
     \/ /\ inbound = <<>>
        /\ ~inTxAlive
        /\ pc' = "panicked"
        /\ result' = Panicked
        /\ UNCHANGED <<inbound, statusVars, previous_sync_info>>
  /\ UNCHANGED <<srcVars, devVars, mgrVars, outbound, outRxAlive, inTxAlive,
                 statusRxAlive, files_on_device, file_set, playlists, callVars, faults>>

\* ------------------------------------------------------ files_on_device

\* The folder of a relative path, and the folders above a folder.
Dir(p) == SubSeq(p, 1, Len(p) - 1)
Above(f) == {SubSeq(f, 1, n) : n \in 0..(Len(f) - 1)}

\* The folders of the music folder (the empty path is the music folder itself).
MusicFolders == UNION {Above(Dir(p)) \cup {Dir(p)} : p \in devMusic}

\* populate_device_files: the files it collects when files() fails on the folders
\* of failFiles and sub_folders() on those of failSubs.
PopulateDeviceFiles(failFiles, failSubs) ==
  {p \in devMusic : Dir(p) \notin failFiles /\ Above(Dir(p)) \cap failSubs = {}}

\* files_on_device: without music folder it is the fatal DeviceReadError; a folder
\* that cannot be listed is a warning.
FilesOnDevice ==
  /\ pc = "files_on_device"
  /\ \/ /\ Inject(1)
        /\ Send(<<"ListingFilesOnDevice">>, 0)
        /\ Fatal("DeviceReadError")
        /\ UNCHANGED files_on_device
     \/ \E failFiles \in SUBSET MusicFolders, failSubs \in SUBSET MusicFolders :
          /\ \A f \in failFiles \cup failSubs : Above(f) \cap failSubs = {}
          /\ Inject(Cardinality(failFiles) + Cardinality(failSubs))
          /\ Send(<<"ListingFilesOnDevice">>,
                  Cardinality(failFiles) + Cardinality(failSubs))
          /\ files_on_device' = PopulateDeviceFiles(failFiles, failSubs)
          /\ pc' = NextPhase("files_on_device", config.include_ratings)
          /\ result' = result
  /\ UNCHANGED <<srcVars, devVars, mgrVars, chanVars, previous_sync_info,
                 file_set, playlists, callVars>>

\* ---------------------------------------------------- m3u_to_song_ids

\* Fault variant of EntryId: the entry is looked up as it is.
EntryIdAsWritten(si, path) == IdForRelativePath(si, path)

\* The TrackId of one entry of a playlist of the device.
EntryId(si, path) ==
  LET stripped == StripPrefix(path, MusicFolder)
  IN IdForRelativePath(si, IF IsSome(stripped) THEN stripped[1] ELSE path)

RECURSIVE M3uToSongIds(_, _)
\* m3u_to_song_ids: the ids of the entries the manifest knows, in order.
M3uToSongIds(entries, si) ==
  IF entries = <<>> THEN <<>>
  ELSE LET id == EntryId(si, Head(entries))
       IN (IF IsSome(id) THEN <<id[1]>> ELSE <<>>) \o M3uToSongIds(Tail(entries), si)

\* The number of warnings of m3u_to_song_ids: one for each unknown entry.
M3uUnknown(entries, si) ==
  Cardinality({i \in DOMAIN entries : ~IsSome(EntryId(si, entries[i]))})

\* ---------------------------------------------- reverse_sync_playlists

\* playlists_on_device(Regular): the .m3u files that are regular lists of the
\* previous manifest.
RegularListsOnDevice(si) ==
  {f \in DOMAIN devLists :
     HasM3uExtension(f) /\ ClassifyStars(f) = 0 /\ HasPlaylistFileName(si, f)}

\* playlists_on_device(Ratings): the .m3u files that are rating lists.
RatingListsOnDevice ==
  {f \in DOMAIN devLists : HasM3uExtension(f) /\ ClassifyStars(f) # 0}

\* Fault variant of IgnoredListWarnings: one warning for each ignored list.
WarningForEachIgnored(ignored) == Cardinality(ignored)

\* playlists_on_device(Regular) on the regular .m3u files that are no lists of
\* the previous manifest: send_info and continue, which counts no warning.
IgnoredListWarnings(ignored) == 0 * Cardinality(ignored)

\* Fault variant of NoSuchPlaylistWarnings: the list is skipped silently.
NoSuchPlaylistSilent(unknown) == unknown

\* The warnings for a list whose playlist the source does not find by its id:
\* those of m3u_to_song_ids, and the Err "No such playlist" of
\* reverse_sync_playlist, which reverse_sync_playlists sends as a warning.
NoSuchPlaylistWarnings(unknown) == unknown + 1

\* What the environment does to the reverse sync of one list: get_reader fails,
\* tracks() fails, the merge is an Err, change_contents_to fails (and then has
\* edited or not).
EnvRsp ==
  [read : BOOLEAN, tracks : BOOLEAN, merge : BOOLEAN, cc : BOOLEAN, partial : BOOLEAN]

\* Fault variant of ShouldChange: the source is rewritten whenever the device
\* differs from it.
ChangeWheneverDifferent(L, D, M) == D # L

\* reverse_sync_playlist: change_contents_to is called when the device order
\* differs from the source order and the merge differs from the source order.
ShouldChange(L, D, M) == D # L /\ M # L

\* reverse_sync_playlist for the list f of the device, under e: the warnings it
\* sends (its own Err included), the change_contents_to call it makes (a
\* sequence of at most one call) and the failures e injects.  The merge is made
\* when the device differs from the source, and its Err is the Err of
\* reverse_sync_playlist.
ReverseSyncPlaylist(si, f, e) ==
  LET pl == si.playlists[f]
      A == pl.tracks
      D == M3uToSongIds(devLists[f], si)
      unknown == M3uUnknown(devLists[f], si)
      found == pl.id \in DOMAIN srcLists
      L == srcLists[pl.id].tracks
      M == ThreeWayMerge(A, L, D)
      none == ~e.tracks /\ ~e.merge /\ ~e.cc /\ ~e.partial
  IN IF e.read
     THEN [warn |-> 1, call |-> <<>>, faults |-> 1, wellFormed |-> none]
     ELSE IF ~found
     THEN [warn |-> NoSuchPlaylistWarnings(unknown), call |-> <<>>, faults |-> 0,
           wellFormed |-> none]
     ELSE IF e.tracks
     THEN [warn |-> unknown + 1, call |-> <<>>, faults |-> 1,
           wellFormed |-> ~e.merge /\ ~e.cc /\ ~e.partial]
     ELSE IF e.merge
     THEN [warn |-> unknown + 1, call |-> <<>>, faults |-> 1,
           wellFormed |-> D # L /\ ~e.cc /\ ~e.partial]
     ELSE IF ~ShouldChange(L, D, M)
     THEN [warn |-> unknown, call |-> <<>>, faults |-> 0,
           wellFormed |-> ~e.cc /\ ~e.partial]
     ELSE [warn |-> unknown + B2N(e.cc),
           call |-> <<[id |-> pl.id, before |-> L, content |-> M, ok |-> ~e.cc,
                       after |-> IF ~e.cc THEN M
                                 ELSE IF e.partial THEN SubSeq(M, 1, Len(M) - 1)
                                 ELSE L]>>,
           faults |-> B2N(e.cc),
           wellFormed |-> e.partial => (e.cc /\ Len(M) > 0)]

RECURSIVE FlattenCalls(_, _)
FlattenCalls(out, fs) ==
  IF fs = <<>> THEN <<>> ELSE out[Head(fs)].call \o FlattenCalls(out, Tail(fs))

RECURSIVE ApplyChanges(_, _)
\* The playlists of the source after the change_contents_to calls.
ApplyChanges(lists, calls) ==
  IF calls = <<>> THEN lists
  ELSE ApplyChanges([lists EXCEPT ![Head(calls).id].tracks = Head(calls).after],
                    Tail(calls))

\* reverse_sync_playlists, and its Err turned into a warning by sync_inner.
ReverseSyncPlaylists ==
  /\ pc = "reverse_sync_playlists"
  /\ IF ~IsSome(previous_sync_info)
     THEN /\ Send(<<"ReverseSyncPlaylists">>, 0)
          /\ UNCHANGED <<srcLists, ccCalls, faults>>
     ELSE \/ /\ Inject(1)
             /\ Send(<<"ReverseSyncPlaylists">>, 1)
             /\ UNCHANGED <<srcLists, ccCalls>>
          \/ LET si == previous_sync_info[1]
                 lists == RegularListsOnDevice(si)
                 ignored == {f \in DOMAIN devLists :
                               /\ HasM3uExtension(f) /\ ClassifyStars(f) = 0
                               /\ ~HasPlaylistFileName(si, f)}
             IN \E env \in [lists -> EnvRsp] :
                  LET out == [f \in lists |-> ReverseSyncPlaylist(si, f, env[f])]
                      calls == FlattenCalls(out, SeqOfSet(lists))
                      warn == [f \in lists |-> out[f].warn]
                      flt == [f \in lists |-> out[f].faults]
                  IN /\ \A f \in lists : out[f].wellFormed
                     /\ Inject(SumOver(flt, lists))
                     /\ Send(<<"ReverseSyncPlaylists">>,
                             IgnoredListWarnings(ignored) + SumOver(warn, lists))
                     /\ srcLists' = ApplyChanges(srcLists, calls)
                     /\ ccCalls' = ccCalls \o calls
  /\ pc' = NextPhase("reverse_sync_playlists", config.include_ratings)
  /\ UNCHANGED <<srcTracks, devVars, mgrVars, chanVars, result, localVars,
                 srCalls, devLog, pathErrs>>

\* ------------------------------------------------ reverse_sync_ratings

\* Track::rating(use_computed_ratings): a computed rating is reported only on
\* request.
TrackRating(t, use_computed_ratings) ==
  IF srcTracks[t].computed /\ ~use_computed_ratings THEN 0 ELSE srcTracks[t].rating

\* Fault variant of AreAllRatingsPlaylistsOnDevice: one rating list is enough.
SomeRatingsPlaylistOnDevice(names) ==
  \E n \in 1..5 : \E f \in names : ClassifyStars(f) = n

\* are_all_ratings_playslists_on_device
AreAllRatingsPlaylistsOnDevice(names) ==
  \A n \in 1..5 : \E f \in names : ClassifyStars(f) = n

\* The ids of a rating list, collected into a HashSet.
IdsWithThisRating(si, f) == Range(M3uToSongIds(devLists[f], si))

\* Fault variant of HaveSetsOverlap: only a rating without list counts.
HaveSetsMissing(ratings_on_device) ==
  \E i \in 1..5 : i \notin DOMAIN ratings_on_device

\* have_sets_overlap, for the ten pairs of ratings.
HaveSetsOverlap(ratings_on_device) ==
  \E i \in 1..5, j \in 1..5 :
    i < j /\ (i \notin DOMAIN ratings_on_device \/ j \notin DOMAIN ratings_on_device
              \/ ratings_on_device[i] \cap ratings_on_device[j] # {})

\* Fault variant of RatingChanged: every track of the device is taken for rated
\* anew.
RatingAlwaysChanged(on_device, at_previous_sync) == TRUE

\* The first test of reverse_sync_ratings for one track: its rating changed on
\* the device.
RatingChanged(on_device, at_previous_sync) == at_previous_sync # on_device

\* Fault variant of MustSetRating: the rating of the source is overwritten even
\* when the source changed it too.
SetRatingIgnoringSource(on_device, at_previous_sync, on_source) == TRUE

\* The second test of reverse_sync_ratings, for a track rated anew on the device
\* that the source still holds: its rating did not change on the source.
MustSetRating(on_device, at_previous_sync, on_source) ==
  on_source = at_previous_sync

\* Fault variant of NoRatings: every track of the manifest in no rating list,
\* with or without a file on the device.
NoRatingsOfManifest(si, onDevice, rated) ==
  {si.song_data[k].id : k \in DOMAIN si.song_data} \ rated

\* no_ratings of reverse_sync_ratings: the ids that the manifest gives to the
\* files of the device, without those removed for a rating list.
NoRatings(si, onDevice, rated) == onDevice \ rated

\* reverse_sync_ratings once the rating lists of read have been read: the
\* warnings it sends (its own Err included) and the pairs <<rating on the
\* device, track>> for which it calls set_rating.
RatingsScan(si, read) ==
  LET onDevice == {t \in TrackIds : \E p \in files_on_device :
                                      IdForRelativePath(si, p) = Some(t)}
      ratings_on_device == [n \in {ClassifyStars(f) : f \in read} |->
                              UNION {IdsWithThisRating(si, f) :
                                       f \in {g \in read : ClassifyStars(g) = n}}]
      rated == UNION {IdsWithThisRating(si, f) : f \in read}
      unknown == [f \in read |-> M3uUnknown(devLists[f], si)]
      members == [f \in read |-> Cardinality(IdsWithThisRating(si, f))]
      notRemoved == SumOver(members, read) - Cardinality(rated \cap onDevice)
      no_ratings == NoRatings(si, onDevice, rated)
      all == [n \in 0..5 |-> IF n = 0 THEN no_ratings
                             ELSE IF n \in DOMAIN ratings_on_device
                                  THEN ratings_on_device[n] ELSE {}]
      changed == {c \in (0..5) \X TrackIds :
                    c[2] \in all[c[1]] /\ RatingChanged(c[1], RatingForId(si, c[2]))}
      gone == {c \in changed : c[2] \notin DOMAIN srcTracks}
      toSet == {c \in changed \ gone :
                  MustSetRating(c[1], RatingForId(si, c[2]),
                                TrackRating(c[2], config.use_computed_ratings))}
  IN IF ~AreAllRatingsPlaylistsOnDevice(read)
     THEN [warn |-> 1, toSet |-> {}]
     ELSE IF HaveSetsOverlap(ratings_on_device)
     THEN [warn |-> SumOver(unknown, read) + notRemoved + 1, toSet |-> {}]
     ELSE [warn |-> SumOver(unknown, read) + notRemoved + Cardinality(gone),
           toSet |-> toSet]

\* The set_rating calls for the pairs of toSet, of which those of srFail fail.
RatingCalls(toSet, srFail) ==
  SeqOfSet({[id |-> c[2], rating |-> c[1], ok |-> c \notin srFail] : c \in toSet})

RECURSIVE ApplyRatings(_, _)
\* The tracks of the source after the set_rating calls.
ApplyRatings(tracks, calls) ==
  IF calls = <<>> THEN tracks
  ELSE ApplyRatings(
         IF Head(calls).ok
         THEN [tracks EXCEPT ![Head(calls).id].rating = Head(calls).rating,
                             ![Head(calls).id].computed = FALSE]
         ELSE tracks,
         Tail(calls))

\* reverse_sync_ratings (config.include_ratings holds), and its Err turned into a
\* warning by sync_inner.
ReverseSyncRatings ==
  /\ pc = "reverse_sync_ratings"
  /\ IF ~IsSome(previous_sync_info)
     THEN /\ Send(<<"ReverseSyncRatings">>, 0)
          /\ UNCHANGED <<srcTracks, srCalls, faults>>
     ELSE \/ /\ Inject(1)
             /\ Send(<<"ReverseSyncRatings">>, 1)
             /\ UNCHANGED <<srcTracks, srCalls>>
          \/ \E readFail \in SUBSET RatingListsOnDevice :
               LET out == RatingsScan(previous_sync_info[1],
                                      RatingListsOnDevice \ readFail)
               IN \E srFail \in SUBSET out.toSet :
                    LET calls == RatingCalls(out.toSet, srFail)
                    IN /\ Inject(Cardinality(readFail) + Cardinality(srFail))
                       /\ Send(<<"ReverseSyncRatings">>,
                               Cardinality(readFail) + out.warn + Cardinality(srFail))
                       /\ srcTracks' = ApplyRatings(srcTracks, calls)
                       /\ srCalls' = srCalls \o calls
  /\ pc' = NextPhase("reverse_sync_ratings", config.include_ratings)
  /\ UNCHANGED <<srcLists, devVars, mgrVars, chanVars, result, localVars,
                 ccCalls, devLog, pathErrs>>

\* ------------------------------------------------------- required_files

\* Source::playlist_by_name: Some(id of a playlist with this name), else None.
PlaylistByName(name) ==
  LET hits == {id \in DOMAIN srcLists : srcLists[id].name = name}
  IN IF hits = {} THEN NoneV ELSE Some(CHOOSE id \in hits : TRUE)

RECURSIVE Occurrences(_, _, _)
\* The tracks required_files visits, in order: those of the playlists of the
\* config from index i on that are found and whose tracks() succeeds.
Occurrences(names, i, tracksFail) ==
  IF i > Len(names) THEN <<>>
  ELSE LET pl == PlaylistByName(names[i])
       IN (IF IsSome(pl) /\ i \notin tracksFail THEN srcLists[pl[1]].tracks ELSE <<>>)
          \o Occurrences(names, i + 1, tracksFail)

RECURSIVE Scan(_, _, _, _, _)
\* The loop over the tracks from occurrence i on: data_with_absolute_paths and
\* total_size.  A track whose absolute_path fails is left out, a failed file_size
\* is 0, and only the first insertion of a path adds to total_size.
Scan(occ, i, pathFail, sizeFail, acc) ==
  IF i > Len(occ) THEN acc
  ELSE LET t == occ[i]
           path == srcTracks[t].path
           file_size == IF i \in sizeFail THEN 0 ELSE srcTracks[t].size
           fd == [file_size |-> file_size, id |-> t,
                  rating |-> TrackRating(t, config.use_computed_ratings)]
       IN IF i \in pathFail
          THEN Scan(occ, i + 1, pathFail, sizeFail, acc)
          ELSE Scan(occ, i + 1, pathFail, sizeFail,
                    [data |-> Override(acc.data, [q \in {path} |-> fd]),
                     total |-> IF path \in DOMAIN acc.data THEN acc.total
                               ELSE acc.total + file_size])

\* common_path_all: Some(the longest folder that is above every path), and None
\* when there is none (no path at all, or paths without a common first component).
CommonPathAll(paths) ==
  LET common == {d \in UNION {Above(p) : p \in paths} :
                   \A p \in paths : d \in Above(p)}
  IN IF paths = {} \/ common \subseteq {<<>>} THEN NoneV
     ELSE Some(CHOOSE d \in common : \A e \in common : Len(e) <= Len(d))

\* Fault variant of CommonAncestor: without common ancestor, the paths are taken
\* as they are.
CommonAncestorOrRoot(paths) ==
  IF IsSome(CommonPathAll(paths)) THEN CommonPathAll(paths) ELSE Some(<<>>)

\* common_path_all(..).ok_or(NoCommonAncestor): None stands for the Err.
CommonAncestor(paths) == CommonPathAll(paths)

\* required_files
RequiredFiles ==
  /\ pc = "required_files"
  /\ LET names == config.playlists
         missing == {i \in DOMAIN names : ~IsSome(PlaylistByName(names[i]))}
     IN \E tracksFail \in SUBSET (DOMAIN names \ missing) :
          LET occ == Occurrences(names, 1, tracksFail)
          IN \E pathFail \in SUBSET DOMAIN occ :
             \E sizeFail \in SUBSET (DOMAIN occ \ pathFail) :
               LET acc == Scan(occ, 1, pathFail, sizeFail,
                               [data |-> EmptyMap, total |-> 0])
                   ca == CommonAncestor(DOMAIN acc.data)
                   warn == Cardinality(missing) + Cardinality(tracksFail)
                           + Cardinality(pathFail) + Cardinality(sizeFail)
                   kept == {q \in DOMAIN acc.data : IsSome(StripPrefix(q, ca[1]))}
               IN /\ Inject(Cardinality(tracksFail) + Cardinality(pathFail)
                            + Cardinality(sizeFail))
                  /\ pathErrs' = {occ[i] : i \in pathFail}
                  /\ IF ~IsSome(ca)
                     THEN /\ Send(<<"ListingFilesInSource">>, warn)
                          /\ Fatal("SongScanningFailed")
                          /\ UNCHANGED file_set
                     ELSE /\ Send(<<"ListingFilesInSource">>,
                                  warn + Cardinality(DOMAIN acc.data \ kept))
                          /\ file_set' =
                               [common_ancestor |-> ca[1],
                                files_data |->
                                  [r \in {StripPrefix(q, ca[1])[1] : q \in kept} |->
                                     acc.data[ca[1] \o r]],
                                total_size |-> acc.total]
                          /\ pc' = NextPhase("required_files", config.include_ratings)
                          /\ result' = result
  /\ UNCHANGED <<srcVars, devVars, mgrVars, chanVars, previous_sync_info,
                 files_on_device, playlists, ccCalls, srCalls, devLog>>

\* ----------------------------------------------------------- sync_files

\* One write call on the device: the operation, the file it names, its result
\* and, for a playlist, the entries written.
DeviceCall(op, target, ok, content) ==
  [op |-> op, target |-> target, ok |-> ok, content |-> content]

\* Fault variant of PushMusicFile: a failed push is tried again until the third
\* attempt.
PushMusicFileThrice(q, fail1, fail2) ==
  IF ~fail1 THEN <<DeviceCall("push_file", q, TRUE, <<>>)>>
  ELSE IF ~fail2 THEN <<DeviceCall("push_file", q, FALSE, <<>>),
                        DeviceCall("push_file", q, TRUE, <<>>)>>
  ELSE <<DeviceCall("push_file", q, FALSE, <<>>),
         DeviceCall("push_file", q, FALSE, <<>>),
         DeviceCall("push_file", q, TRUE, <<>>)>>

\* The push_music_file calls of sync_files for the file q, when the first call
\* fails (fail1) and the second one fails (fail2): the second call is made when
\* the first one failed, and there is no third one.
PushMusicFile(q, fail1, fail2) ==
  IF ~fail1 THEN <<DeviceCall("push_file", q, TRUE, <<>>)>>
  ELSE <<DeviceCall("push_file", q, FALSE, <<>>),
         DeviceCall("push_file", q, ~fail2, <<>>)>>

\* Fault variant of FilesToRemove: nothing is removed from the device.
RemoveNothing(present, expected) == {}

\* Fault variant of PathsToPush: every file of the file set is pushed, on the
\* device or not.
PushAllExpected(present, expected) == expected

\* Fault variant of FilesToRemove: a file of a track of the source is kept.
RemoveStrayFiles(present, expected) ==
  {p \in CaseInsensitiveDifference(present, expected) :
     \A t \in DOMAIN srcTracks : ToLower(TrackRel(t)) # ToLower(p)}

\* files_to_remove and paths_to_push of sync_files.
FilesToRemove(present, expected) == CaseInsensitiveDifference(present, expected)
PathsToPush(present, expected) == CaseInsensitiveDifference(expected, present)

RECURSIVE Concat(_, _)
\* The calls made for the elements of a sequence, one after the other.
Concat(callsOf, xs) ==
  IF xs = <<>> THEN <<>> ELSE callsOf[Head(xs)] \o Concat(callsOf, Tail(xs))

\* The number of failed calls, and the targets of the successful calls op.
Failed(calls) == Cardinality({i \in DOMAIN calls : ~calls[i].ok})
Succeeded(calls, op) == {calls[i].target : i \in {j \in DOMAIN calls : calls[j].op = op /\ calls[j].ok}}

\* sync_files: without music folder it is fatal; a file that cannot be removed,
\* and a file that cannot be pushed in two attempts, are warnings.  A failed
\* push leaves the file on the device (left) or not.
SyncFiles ==
  /\ pc = "sync_files"
  /\ LET expected == DOMAIN file_set.files_data
         to_remove == FilesToRemove(files_on_device, expected)
         to_push == PathsToPush(files_on_device, expected)
     IN \/ /\ Inject(1)
           /\ Send(<<"SyncingFiles">>, 0)
           /\ Fatal("SyncingFilesFailed")
           /\ UNCHANGED <<devMusic, devLog>>
        \/ \E delFail \in SUBSET to_remove, push1Fail \in SUBSET to_push :
           \E push2Fail \in SUBSET push1Fail :
             LET removes == [q \in to_remove |->
                               <<DeviceCall("delete_file", q, q \notin delFail, <<>>)>>]
                 pushes == [q \in to_push |->
                              PushMusicFile(q, q \in push1Fail, q \in push2Fail)]
                 calls == Concat(removes, SeqOfSet(to_remove))
                          \o Concat(pushes, SeqOfSet(to_push))
             IN \E left \in SUBSET (to_push \ Succeeded(calls, "push_file")) :
                /\ Inject(Cardinality(delFail) + Cardinality(push1Fail))
                /\ Send(<<"SyncingFiles">>, Failed(calls))
                /\ devMusic' = ((devMusic \ Succeeded(calls, "delete_file"))
                                \cup Succeeded(calls, "push_file")) \cup left
                /\ devLog' = devLog \o calls
                /\ pc' = NextPhase("sync_files", config.include_ratings)
                /\ result' = result
  /\ UNCHANGED <<srcVars, devLists, devInfo, mgrVars, chanVars, localVars,
                 ccCalls, srCalls, pathErrs>>

\* ------------------------------------------------------ update_playlists

\* Fault variant of ToM3u: the entries are those of the set of the tracks, and
\* not in the order of the playlist.
ToM3uUnordered(id, common_ancestor, prefix) ==
  LET tracks == SeqOfSet(Range(srcLists[id].tracks))
      rel == [i \in DOMAIN tracks |-> StripPrefix(srcTracks[tracks[i]].path, common_ancestor)]
  IN IF \E i \in DOMAIN rel : ~IsSome(rel[i]) THEN NoneV
     ELSE Some(CreateM3u([i \in DOMAIN rel |-> rel[i][1]], prefix))

\* Fault variant of ToM3u: the entries are written last track first.
ToM3uReversed(id, common_ancestor, prefix) ==
  LET tracks == srcLists[id].tracks
      rel == [i \in DOMAIN tracks |->
                StripPrefix(srcTracks[tracks[Len(tracks) + 1 - i]].path, common_ancestor)]
  IN IF \E i \in DOMAIN rel : ~IsSome(rel[i]) THEN NoneV
     ELSE Some(CreateM3u([i \in DOMAIN rel |-> rel[i][1]], prefix))

\* Playlist::to_m3u: the entries of the playlist id, or None when a track is not
\* below common_ancestor.
ToM3u(id, common_ancestor, prefix) ==
  LET tracks == srcLists[id].tracks
      rel == [i \in DOMAIN tracks |-> StripPrefix(srcTracks[tracks[i]].path, common_ancestor)]
  IN IF \E i \in DOMAIN rel : ~IsSome(rel[i]) THEN NoneV
     ELSE Some(CreateM3u([i \in DOMAIN rel |-> rel[i][1]], prefix))

\* What the environment does to the push of one playlist of the config: to_m3u
\* fails, push_playlist fails, tracks() fails.
EnvPush == [m3u : BOOLEAN, push : BOOLEAN, tracks : BOOLEAN]

\* Fault variant of InsertPushed: an entry that exists is kept.
InsertPushedIfAbsent(pushed, file, entry) ==
  IF file \in DOMAIN pushed THEN pushed ELSE Override(pushed, [f \in {file} |-> entry])

\* pushed_playlists.insert(file, entry): an entry that exists is replaced.
InsertPushed(pushed, file, entry) == Override(pushed, [f \in {file} |-> entry])

RECURSIVE PushPlaylists(_, _, _, _)
\* push_playlists from the index i of config.playlists on: the push_playlist
\* calls (with their content), the PlaylistsSet and the warnings.
PushPlaylists(names, i, env, acc) ==
  IF i > Len(names) THEN acc
  ELSE LET pl == PlaylistByName(names[i])
           e == env[i]
       IN IF ~IsSome(pl)
          THEN PushPlaylists(names, i + 1, env, [acc EXCEPT !.warn = @ + 1])
          ELSE LET id == pl[1]
                   file == SuitableFilename(srcLists[id].name)
                   m3u == IF e.m3u THEN NoneV
                          ELSE ToM3u(id, file_set.common_ancestor, MusicFolder)
                   call == IF IsSome(m3u)
                           THEN <<DeviceCall("push_playlist", file, ~e.push, m3u[1])>>
                           ELSE <<>>
                   w1 == IF IsSome(m3u) THEN B2N(e.push) ELSE 1
                   w2 == IF e.tracks THEN 1
                         ELSE B2N(file \in DOMAIN acc.pushed)
                   pushed == IF e.tracks THEN acc.pushed
                             ELSE InsertPushed(acc.pushed, file,
                                    [id |-> id, tracks |-> srcLists[id].tracks])
               IN PushPlaylists(names, i + 1, env,
                    [calls |-> acc.calls \o call, pushed |-> pushed,
                     warn |-> acc.warn + w1 + w2,
                     faults |-> acc.faults + B2N(e.m3u) + B2N(e.push) + B2N(e.tracks),
                     wellFormed |-> acc.wellFormed /\ (e.push => IsSome(m3u))])

RECURSIVE WriteLists(_, _)
\* The .m3u files of the device after the successful delete_playlist and
\* push_playlist calls.
WriteLists(lists, calls) ==
  IF calls = <<>> THEN lists
  ELSE LET c == Head(calls)
       IN WriteLists(
            IF ~c.ok THEN lists
            ELSE IF c.op = "delete_playlist"
                 THEN [f \in DOMAIN lists \ {c.target} |-> lists[f]]
                 ELSE Override(lists, [f \in {c.target} |-> c.content]),
            Tail(calls))

\* Fault variant of CurrentPlaylists: the rating lists are left alone.
CurrentRegularPlaylists(lists) ==
  {f \in DOMAIN lists : HasM3uExtension(f) /\ ClassifyStars(f) = 0}

\* The files that remove_current_playlists deletes: every file of the StarSync
\* folder with the extension m3u.
CurrentPlaylists(lists) == {f \in DOMAIN lists : HasM3uExtension(f)}

\* update_playlists: without StarSync folder it is fatal; then
\* remove_current_playlists (a list that cannot be removed is a warning, as is a
\* folder that cannot be listed) and push_playlists.
UpdatePlaylists ==
  /\ pc = "update_playlists"
  /\ \/ /\ Inject(1)
        /\ Send(<<"PushingPlaylists">>, 0)
        /\ Fatal("PushingPlaylistsFailed")
        /\ UNCHANGED <<devLists, devLog, playlists>>
     \/ LET m3us == CurrentPlaylists(devLists)
        IN \E listFail \in BOOLEAN :
           \E rmFail \in SUBSET (IF listFail THEN {} ELSE m3us) :
           \E env \in [DOMAIN config.playlists -> EnvPush] :
             LET removes == [f \in m3us |->
                               <<DeviceCall("delete_playlist", f, f \notin rmFail, <<>>)>>]
                 rmCalls == IF listFail THEN <<>> ELSE Concat(removes, SeqOfSet(m3us))
                 out == PushPlaylists(config.playlists, 1, env,
                          [calls |-> <<>>, pushed |-> EmptyMap, warn |-> 0,
                           faults |-> 0, wellFormed |-> TRUE])
             IN /\ out.wellFormed
                /\ Inject(B2N(listFail) + Cardinality(rmFail) + out.faults)
                /\ Send(<<"PushingPlaylists">>,
                        B2N(listFail) + Cardinality(rmFail) + out.warn)
                /\ devLists' = WriteLists(devLists, rmCalls \o out.calls)
                /\ devLog' = devLog \o rmCalls \o out.calls
                /\ playlists' = out.pushed
                /\ pc' = NextPhase("update_playlists", config.include_ratings)
                /\ result' = result
  /\ UNCHANGED <<srcVars, devMusic, devInfo, mgrVars, chanVars,
                 previous_sync_info, files_on_device, file_set, ccCalls, srCalls, pathErrs>>

\* --------------------------------------------------- push_star_playlists

\* Fault variant of SongPathsByRating: only the ratings that some file has.
SongPathsOfRatedFiles(fs) ==
  [n \in {fs.files_data[q].rating : q \in DOMAIN fs.files_data} \cap (1..5) |->
     SeqOfSet({q \in DOMAIN fs.files_data : fs.files_data[q].rating = n})]

\* FileSet::song_paths_by_rating: the five ratings, each with the paths of the
\* files of this rating.
SongPathsByRating(fs) ==
  [n \in 1..5 |-> SeqOfSet({q \in DOMAIN fs.files_data : fs.files_data[q].rating = n})]

\* Fault variant of StarListsToPush: a list is pushed only for a rating that some
\* file has.
NonEmptyStarLists(by_rating) == {n \in DOMAIN by_rating : by_rating[n] # <<>>}

\* The ratings for which push_star_playlists pushes a list: every key of
\* song_paths_by_rating.
StarListsToPush(by_rating) == DOMAIN by_rating

\* push_star_playlists (config.include_ratings holds): a list that cannot be
\* pushed is a warning.
PushStarPlaylists ==
  /\ pc = "push_star_playlists"
  /\ LET by_rating == SongPathsByRating(file_set)
         stars == StarListsToPush(by_rating)
     IN \E pushFail \in SUBSET stars :
          LET pushes == [n \in stars |->
                           <<DeviceCall("push_playlist", FavoritesPlaylistName(n),
                                        n \notin pushFail,
                                        CreateM3u(by_rating[n], MusicFolder))>>]
              calls == Concat(pushes, SeqOfSet(stars))
          IN /\ Inject(Cardinality(pushFail))
             /\ Send(<<"PushingRatings">>, Cardinality(pushFail))
             /\ devLists' = WriteLists(devLists, calls)
             /\ devLog' = devLog \o calls
  /\ pc' = NextPhase("push_star_playlists", config.include_ratings)
  /\ UNCHANGED <<srcVars, devMusic, devInfo, mgrVars, chanVars, result,
                 localVars, ccCalls, srCalls, pathErrs>>

\* ------------------------------------------------------ update_sync_info

\* SyncInfo::new on the lowercased paths of the file set.
NewSyncInfo(fs, lists) ==
  [hostname |-> CurrentHostname,
   common_ancestor |-> fs.common_ancestor,
   song_data |-> [k \in {ToLower(q) : q \in DOMAIN fs.files_data} |->
                    LET q == CHOOSE r \in DOMAIN fs.files_data : ToLower(r) = k
                    IN [id |-> fs.files_data[q].id, rating |-> fs.files_data[q].rating]],
   playlists |-> lists]

\* Fault variant of PushSyncInfos: the manifest is pushed a second time.
PushSyncInfosTwice(ok) ==
  <<DeviceCall("push_sync_infos", <<>>, ok, <<>>),
    DeviceCall("push_sync_infos", <<>>, ok, <<>>)>>

\* The one push_sync_infos call of update_sync_info.
PushSyncInfos(ok) == <<DeviceCall("push_sync_infos", <<>>, ok, <<>>)>>

\* update_sync_info, then the end of sync_inner and of start_sync: a manifest
\* that cannot be pushed is fatal (and the file of the device is then as before,
\* or unreadable); else Done is sent and the count of warnings returned.
UpdateSyncInfo ==
  /\ pc = "update_sync_info"
  /\ \/ /\ Inject(1)
        /\ Send(<<"UpdatingSyncInfo">>, 0)
        /\ \E clobbered \in BOOLEAN :
             devInfo' = IF clobbered THEN NoneV ELSE devInfo
        /\ devLog' = devLog \o PushSyncInfos(FALSE)
        /\ Fatal("UpdateSyncInfoFailed")
     \/ /\ Send(<<"UpdatingSyncInfo", "Done">>, 0)
        /\ devInfo' = Some(NewSyncInfo(file_set, playlists))
        /\ devLog' = devLog \o PushSyncInfos(TRUE)
        /\ Return(OkWith(WarningsCount(n_warns')))
        /\ UNCHANGED faults
  /\ UNCHANGED <<srcVars, devMusic, devLists, mgrVars, chanVars, localVars,
                 ccCalls, srCalls, pathErrs>>

\* ------------------------------------------------------------ the cycles

\* The state of the worker, of the channels and of the call logs before
\* start_sync; with_device has read the manifest of the device.
NoCycle ==
  /\ mgrInfo = devInfo
  /\ outbound = <<>> /\ inbound = <<>>
  /\ outRxAlive = TRUE /\ inTxAlive = TRUE /\ statusRxAlive = TRUE
  /\ progress = <<>> /\ n_warns = 0 /\ warnSent = 0 /\ warnsByPhase = <<>>
  /\ pc = "new" /\ result = Pending
  /\ previous_sync_info = NoneV
  /\ files_on_device = {}
  /\ file_set = [common_ancestor |-> <<>>, files_data |-> EmptyMap, total_size |-> 0]
  /\ playlists = EmptyMap
  /\ ccCalls = <<>> /\ srCalls = <<>> /\ devLog = <<>> /\ pathErrs = {}
  /\ faults = 0
  /\ earlier = <<>>
  /\ exit_code = NoneV
  /\ cli = NoCli

\* The same, and no call is followed on its own.
Fresh == NoCycle /\ edit = NoEdit /\ probe = NoProbe

\* The ratings of a scenario: every track has 3 stars, but the first one has
\* first stars.
RatingsWith(first) == [t \in TrackIds |-> IF t = 1 THEN first ELSE 3]

\* The rating lists with one more entry for each pair <<rating, track>> of dup
\* whose list exists.
AddToLists(lists, dup) ==
  [f \in DOMAIN lists |->
     lists[f] \o CreateM3u(SeqOfSet({TrackRel(c[2]) :
                              c \in {d \in dup : FavoritesPlaylistName(d[1]) = f}}),
                           MusicFolder)]

\* Another drive of the source.
OtherRoot == <<"e">>

\* A source with the playlist P of order L, the playlists of more and the
\* ratings rs, whose tracks are below LibraryRoot but those of elsewhere, which
\* are on OtherRoot; a config that selects the playlists of names; and a device
\* with the files of files, the list of P in the order D, the rating lists of the ratings rd (but those of missing) and the manifest
\* of a previous cycle (info: none, or written on this host or on another one)
\* with the order A, the further tracks others and the ratings rm.  The tracks
\* of gone have been removed from the source since, and the pairs <<rating,
\* track>> of dup have been added to the rating lists of the device.
Library(s, more, names, elsewhere) ==
  /\ srcLists = Override(
         [id \in {"P"} |->
            [name |-> "P", tracks |-> SelectSeq(s.L, LAMBDA t : t \notin s.gone)]],
         more)
  /\ srcTracks = [t \in TrackIds \ s.gone |->
                    [path |-> (IF t \in elsewhere THEN OtherRoot ELSE LibraryRoot)
                                \o TrackRel(t),
                     rating |-> s.rs[t],
                     computed |-> FALSE, size |-> 10 * t]]
  /\ config = [playlists |-> names, include_ratings |-> s.incl,
               use_computed_ratings |-> FALSE]
  /\ devMusic = s.files
  /\ devLists = Override(
         AddToLists(RatingLists(TrackIds, s.rd, s.missing), s.dup),
         [f \in {SuitableFilename("P")} |->
            CreateM3u([i \in DOMAIN s.D |-> TrackRel(s.D[i])], MusicFolder)])
  /\ devInfo = IF s.info = "none" THEN NoneV
               ELSE Some(ManifestOf(IF s.info = "this" THEN CurrentHostname
                                    ELSE "other-host", s.A, s.others, s.rm))

\* The library and the device of the scenario s, before start_sync.
SetupOn(s, more, names, elsewhere) == Library(s, more, names, elsewhere) /\ Fresh

\* The same with every track below LibraryRoot.
SetupWith(s, more, names) == SetupOn(s, more, names, {})

\* The same with P as the only playlist of the source and of the config.
Setup(s) == SetupWith(s, EmptyMap, <<"P">>)

AllFiles == {TrackRel(t) : t \in TrackIds}

\* The cycles of Spec: with and without manifest and ratings, the list of the
\* device in the order of the source or reversed, the files of the device those
\* of the source or a stray file and a file in another letter case, the first
\* track rated as before or anew on the device.
Scenarios ==
  [info : {"none", "this", "other"}, incl : BOOLEAN,
   L : {IdOrder}, A : {IdOrder}, D : {IdOrder, RevOrder},
   files : {AllFiles, {OtherCase(TrackRel(1)), <<"x">>}},
   rs : {RatingsWith(3)}, rm : {RatingsWith(3)},
   rd : {RatingsWith(3), RatingsWith(5)}, missing : {{}}, others : {{}}, gone : {{}}, dup : {{}}]

Init == \E s \in Scenarios : Setup(s)

\* Some files of the device: those of the source, the first one in another
\* letter case, and a stray file.
FileUniverse == AllFiles \cup {OtherCase(TrackRel(1)), <<"x">>}

\* The cycles of SpecFiles: a first sync to a device that holds any files of
\* FileUniverse.
ScenariosFiles ==
  [info : {"none"}, incl : {TRUE},
   L : {IdOrder}, A : {IdOrder}, D : {IdOrder},
   files : SUBSET FileUniverse,
   rs : {RatingsWith(3)}, rm : {RatingsWith(3)}, rd : {RatingsWith(3)},
   missing : {{}}, others : {{}}, gone : {{}}, dup : {{}}]

InitFiles == \E s \in ScenariosFiles : Setup(s)

\* The orders of a playlist: the sequences of distinct tracks.
Orders ==
  {s \in UNION {[1..n -> TrackIds] : n \in 0..MaxTrack} :
     \A i, j \in DOMAIN s : i # j => s[i] # s[j]}

\* The cycles of SpecPlaylists: after a sync of the playlist in the order of the
\* ids, with or without its last track (which the manifest may know all the
\* same), the source holds it in any order and the device in the order of the
\* ids or reversed.
ScenariosPlaylists ==
  [info : {"this"}, incl : {TRUE},
   L : Orders, A : {IdOrder, SubSeq(IdOrder, 1, MaxTrack - 1)},
   D : {IdOrder, RevOrder},
   files : {AllFiles},
   rs : {RatingsWith(3)}, rm : {RatingsWith(3)}, rd : {RatingsWith(3)},
   missing : {{}}, others : {{}, TrackIds}, gone : {{}}, dup : {{}}]

InitPlaylists == \E s \in ScenariosPlaylists : Setup(s)

\* The ratings of the cycles of SpecRatings: the first track has 3 stars at the
\* previous sync, 3 or 4 on the source, and 3, 5 or none on the device.
RatedCycles ==
  [info : {"this"}, incl : {TRUE},
   L : {IdOrder}, A : {IdOrder}, D : {IdOrder}, files : {AllFiles},
   rs : {RatingsWith(3), RatingsWith(4)}, rm : {RatingsWith(3)},
   rd : {RatingsWith(3), RatingsWith(5), RatingsWith(0)},
   missing : {{}}, others : {{}}, gone : {{}}, dup : {{}}]

\* The cycles of SpecRatings: those of RatedCycles and, for those with an
\* unchanged source, the ones without the list of 2 stars, without the first
\* track in the source, with the first track in the list of 4 stars too,
\* without the list of 2 stars and without any file, or with a first track that
\* had no rating.
ScenariosRatings ==
  RatedCycles
    \cup {[s EXCEPT !.missing = {2}] : s \in {r \in RatedCycles : r.rs = r.rm}}
    \cup {[s EXCEPT !.gone = {1}] : s \in {r \in RatedCycles : r.rs = r.rm}}
    \cup {[s EXCEPT !.dup = {<<4, 1>>}] : s \in {r \in RatedCycles : r.rs = r.rm}}
    \cup {[s EXCEPT !.missing = {2}, !.files = {}] :
             s \in {r \in RatedCycles : r.rs = r.rm}}
    \cup {[s EXCEPT !.rs = RatingsWith(0), !.rm = RatingsWith(0)] :
             s \in {r \in RatedCycles : r.rs = r.rm}}

InitRatings == \E s \in ScenariosRatings : Setup(s)

Next ==
  \/ DriverAcknowledge
  \/ DriverDropInbound
  \/ DriverDropOutbound
  \/ DriverDropStatus
  \/ StartSync
  \/ RecvAck
  \/ FilesOnDevice
  \/ ReverseSyncPlaylists
  \/ ReverseSyncRatings
  \/ RequiredFiles
  \/ SyncFiles
  \/ UpdatePlaylists
  \/ PushStarPlaylists
  \/ UpdateSyncInfo

Spec == Init /\ [][Next]_vars

SpecFiles == InitFiles /\ [][Next]_vars

SpecRatings == InitRatings /\ [][Next]_vars

SpecPlaylists == InitPlaylists /\ [][Next]_vars

\* The cycles of SpecTwice: a first sync or one after a sync on this host, the
\* playlist in the order of the ids or reversed in the source and on the device,
\* the files of the device those of the source or a stray file and a file in
\* another letter case, the first track rated as before or anew on the device.
ScenariosTwice ==
  [info : {"none", "this"}, incl : {TRUE},
   L : {IdOrder, RevOrder}, A : {IdOrder}, D : {IdOrder, RevOrder},
   files : {AllFiles, {OtherCase(TrackRel(1)), <<"x">>}},
   rs : {RatingsWith(3)}, rm : {RatingsWith(3)},
   rd : {RatingsWith(3), RatingsWith(5)},
   missing : {{}}, others : {{}}, gone : {{}}, dup : {{}}]

InitTwice == \E s \in ScenariosTwice : Setup(s)

\* cli_sync_device once more, after a cycle that returned Ok and with the
\* source, the device and its config as that cycle left them: with_device reads
\* the manifest of the device, and start_sync gets new channels and a new
\* status::Sender.
SyncDeviceAgain ==
  /\ pc = "returned"
  /\ result.tag = "Ok"
  /\ earlier = <<>>
  /\ earlier' = Append(earlier, [result |-> result, info |-> devInfo])
  /\ mgrInfo' = devInfo
  /\ outbound' = <<>> /\ inbound' = <<>>
  /\ outRxAlive' = TRUE /\ inTxAlive' = TRUE /\ statusRxAlive' = TRUE
  /\ progress' = <<>> /\ n_warns' = 0 /\ warnSent' = 0 /\ warnsByPhase' = <<>>
  /\ pc' = "new" /\ result' = Pending
  /\ previous_sync_info' = NoneV
  /\ files_on_device' = {}
  /\ file_set' = [common_ancestor |-> <<>>, files_data |-> EmptyMap, total_size |-> 0]
  /\ playlists' = EmptyMap
  /\ ccCalls' = <<>> /\ srCalls' = <<>> /\ devLog' = <<>> /\ pathErrs' = {}
  /\ UNCHANGED <<srcVars, devVars, config, faults, exit_code, cli, edit, probe>>

\* The cycles of SpecDuplicates: the source has the playlist P in the order of
\* the ids and a playlist named "P?" in this order, reversed or without the last
\* track, whose file names are the same, and the config selects both, in one order or the other, or P twice;
\* it is a first sync.
ScenariosDuplicates ==
  [info : {"none"}, incl : {TRUE},
   L : {IdOrder}, A : {IdOrder}, D : {IdOrder},
   files : {AllFiles},
   rs : {RatingsWith(3)}, rm : {RatingsWith(3)}, rd : {RatingsWith(3)},
   missing : {{}}, others : {{}}, gone : {{}}, dup : {{}}]

InitDuplicates ==
  \E s \in ScenariosDuplicates,
     q \in {IdOrder, RevOrder, SubSeq(IdOrder, 1, MaxTrack - 1)} :
  \E names \in {<<"P", "P?">>, <<"P?", "P">>, <<"P", "P">>} :
    SetupWith(s, [id \in {"Q"} |-> [name |-> "P?", tracks |-> q]], names)

SpecDuplicates == InitDuplicates /\ [][Next]_vars

\* The cycles of SpecRoots: the playlist has all the tracks, the first one or
\* none, the first track is below LibraryRoot or on OtherRoot, and it is a first
\* sync or one after a sync on this host.
ScenariosRoots ==
  [info : {"none", "this"}, incl : {TRUE},
   L : {IdOrder, <<1>>, <<>>}, A : {IdOrder}, D : {IdOrder},
   files : {AllFiles, {OtherCase(TrackRel(1)), <<"x">>}},
   rs : {RatingsWith(3)}, rm : {RatingsWith(3)}, rd : {RatingsWith(3)},
   missing : {{}}, others : {{}}, gone : {{}}, dup : {{}}]

InitRoots ==
  \E s \in ScenariosRoots, elsewhere \in {{}, {1}} :
    SetupOn(s, EmptyMap, <<"P">>, elsewhere)

SpecRoots == InitRoots /\ [][Next]_vars

NextTwice == Next \/ SyncDeviceAgain

\* The exit code of a process that panicked.
PanicExitCode == 101

\* What the user may type at the prompt before stdin ends: y or n and Enter
\* (with the line end of Windows too), y without Enter, Enter alone, nothing,
\* a capital Y, yes.
TypedAnswers ==
  {<<"y", "\n">>, <<"y", "\r", "\n">>, <<"n", "\n">>, <<"y">>, <<"\n">>, <<>>,
   <<"Y", "\n">>, <<"y", "e", "s", "\n">>}

\* Stdin::read_line into an empty String: the characters up to the first
\* newline, the newline included, or up to the end of the input.
ReadLine(typed) ==
  LET ends == {i \in DOMAIN typed : typed[i] = "\n"}
  IN IF ends = {} THEN typed
     ELSE SubSeq(typed, 1, CHOOSE i \in ends : \A j \in ends : i <= j)

\* Fault variant of Proceeds: the line is compared without its line end.
ProceedsTrimmed(user_input) ==
  SelectSeq(user_input, LAMBDA c : c \notin {"\n", "\r"}) = <<"y">>

\* The test of the answer in cli_sync_device: user_input == "y".
Proceeds(user_input) == user_input = <<"y">>

\* cli_sync_device from validator_rx.recv() to acknowledged_validator_tx.send:
\* on a mismatch of the hostnames the user is asked, and the mismatch is
\* cleared when the answer passes the test; the validator is sent back.  When
\* read_line returns Err, cli_sync_device returns it, main panics, and the
\* channels of the driver are dropped.
CliAcknowledge ==
  /\ cli.pc = "recv"
  /\ outbound # <<>>
  /\ outbound' = Tail(outbound)
  /\ LET v == Head(outbound)
     IN IF IsSome(v.last_sync_computer_mismatch)
          THEN \/ /\ UNCHANGED faults
                  /\ \E typed \in TypedAnswers :
                       LET user_input == ReadLine(typed)
                           acked == IF Proceeds(user_input)
                                      THEN [v EXCEPT !.last_sync_computer_mismatch = NoneV]
                                      ELSE v
                       IN /\ cli' = [cli EXCEPT !.pc = "status", !.user_input = user_input]
                          /\ inbound' = Append(inbound, acked)
                  /\ UNCHANGED <<exit_code, outRxAlive, inTxAlive, statusRxAlive>>
               \/ /\ Inject(1)
                  /\ cli' = [cli EXCEPT !.pc = "ended"]
                  /\ exit_code' = Some(PanicExitCode)
                  /\ outRxAlive' = FALSE /\ inTxAlive' = FALSE /\ statusRxAlive' = FALSE
                  /\ UNCHANGED inbound
          ELSE /\ cli' = [cli EXCEPT !.pc = "status"]
               /\ inbound' = Append(inbound, v)
               /\ UNCHANGED <<faults, exit_code, outRxAlive, inTxAlive, statusRxAlive>>
  /\ UNCHANGED <<srcVars, devVars, config, mgrInfo, earlier, edit, probe,
                 statusVars, pc, result, localVars, callVars>>

\* Fault variant of RecvStatus: the end of the worker is not seen.
RecvStatusNeverDisconnected(unread, sender_dropped) ==
  IF unread # <<>> THEN [tag |-> "Ok", msg |-> Head(unread)]
  ELSE [tag |-> "Blocked", msg |-> ""]

\* status_rx.recv(): the oldest message not yet received; without one, Err
\* once the Sender was dropped (start_sync returned or panicked), and recv
\* blocks until then.
RecvStatus(unread, sender_dropped) ==
  IF unread # <<>> THEN [tag |-> "Ok", msg |-> Head(unread)]
  ELSE IF sender_dropped THEN [tag |-> "Err", msg |-> ""]
  ELSE [tag |-> "Blocked", msg |-> ""]

\* One iteration of the loop of cli_sync_device on the status channel (of its
\* messages, those of progress are followed): the loop ends on Progress(Done)
\* and on Err, and goes on after every other message.
CliStatusLoop ==
  /\ cli.pc = "status"
  /\ LET r == RecvStatus(SubSeq(progress, cli.read + 1, Len(progress)),
                         pc \in {"returned", "panicked"})
     IN /\ r.tag # "Blocked"
        /\ cli' = IF r.tag = "Err" THEN [cli EXCEPT !.pc = "join"]
                  ELSE IF r.msg = "Done"
                         THEN [cli EXCEPT !.pc = "join", !.read = @ + 1]
                         ELSE [cli EXCEPT !.read = @ + 1]
  /\ UNCHANGED <<srcVars, devVars, config, mgrInfo, earlier, exit_code, edit, probe,
                 chanVars, statusVars, pc, result, localVars, callVars, faults>>

\* The end of cli_sync_device and of main: sync_thread.join() returns once the
\* worker ended, and is an Err when the worker panicked, and resume_unwind
\* panics in turn; every result of start_sync, Err(err) included, is printed,
\* cli_sync_device returns Ok(()) and main returns.
CliSyncDeviceEnds ==
  /\ cli.pc = "join"
  /\ pc \in {"returned", "panicked"}
  /\ exit_code = NoneV
  /\ exit_code' = Some(IF pc = "panicked" THEN PanicExitCode ELSE 0)
  /\ cli' = [cli EXCEPT !.pc = "ended"]
  /\ UNCHANGED <<srcVars, devVars, config, mgrInfo, earlier, edit, probe, chanVars,
                 statusVars, pc, result, localVars, callVars, faults>>

\* The worker: start_sync and the phases of sync_inner.
NextWorker ==
  \/ StartSync
  \/ RecvAck
  \/ FilesOnDevice
  \/ ReverseSyncPlaylists
  \/ ReverseSyncRatings
  \/ RequiredFiles
  \/ SyncFiles
  \/ UpdatePlaylists
  \/ PushStarPlaylists
  \/ UpdateSyncInfo

NextCli ==
  \/ NextWorker
  \/ CliAcknowledge
  \/ CliStatusLoop
  \/ CliSyncDeviceEnds

\* The cycles of Spec as the sync command of the CLI runs them.
SpecCli == Init /\ [][NextCli]_vars

\* The cycles of SpecCliFair: with and without manifest and ratings, after a
\* sync on this host or on another one, on a device with the files and the
\* lists of the source.
ScenariosCli ==
  [info : {"none", "this", "other"}, incl : BOOLEAN,
   L : {IdOrder}, A : {IdOrder}, D : {IdOrder}, files : {AllFiles},
   rs : {RatingsWith(3)}, rm : {RatingsWith(3)}, rd : {RatingsWith(3)},
   missing : {{}}, others : {{}}, gone : {{}}, dup : {{}}]

InitCli == \E s \in ScenariosCli : Setup(s)

\* The phases of sync_inner that call the source and the device for every
\* track and playlist.
CallingPhases ==
  {"reverse_sync_ratings", "required_files", "update_playlists",
   "push_star_playlists"}

\* Every call of such a phase returns: the worker leaves the phase, for the
\* next one or with the error of the phase.
WorkerCallsReturn ==
  /\ pc \in CallingPhases
  /\ pc' \in {NextPhase(pc, TRUE), NextPhase(pc, FALSE), "returned", "panicked"}

\* The same cycles when the two threads are scheduled: a thread that can take
\* a step takes one, as every call of the worker on the source and on the
\* device returns, and the user answers the prompt.
SpecCliFair ==
  /\ InitCli
  /\ [][NextCli]_vars
  /\ WF_vars(StartSync)
  /\ WF_vars(RecvAck)
  /\ WF_vars(FilesOnDevice)
  /\ WF_vars(ReverseSyncPlaylists)
  /\ WF_pc(WorkerCallsReturn)
  /\ WF_vars(SyncFiles)
  /\ WF_vars(UpdateSyncInfo)
  /\ WF_vars(CliAcknowledge)
  /\ WF_vars(CliStatusLoop)
  /\ WF_vars(CliSyncDeviceEnds)

SpecTwice == InitTwice /\ [][NextTwice]_vars

\* ------------------------------------------ Playlist::change_contents_to

\* list without its j-th entry.
RemoveAt(list, j) == SubSeq(list, 1, j - 1) \o SubSeq(list, j + 1, Len(list))

\* The playlists remove_from_playlist(name, url) of Rhythmbox can leave: the
\* call names a file, not a position, and Rhythmbox is not part of the
\* sources, so it removes one of the entries of this file, or all of them.
RhythmboxRemoveFile(list, t) ==
  {RemoveAt(list, j) : j \in {n \in DOMAIN list : list[n] = t}}
    \cup {SelectSeq(list, LAMBDA x : x # t)}

\* The playlists add_to_playlist(name, url) of Rhythmbox can leave: the file is
\* appended, or the call changes nothing when the playlist has it already.
RhythmboxAddFile(list, t) ==
  {Append(list, t)} \cup (IF t \in Range(list) THEN {list} ELSE {})

\* get_i_th_track of source/rhythmbox: entries() is a Vec, whose first entry
\* has the index 0.
RhythmboxIthTrack(list, i) == IF i < Len(list) THEN Some(list[i + 1]) ELSE NoneV

\* get_i_th_track of source/itunes_win: Tracks().item(i) of the COM collection,
\* whose first item has the index 1; no such item is NS_E_PROPERTY_NOT_FOUND.
ITunesIthTrack(list, i) == IF i \in DOMAIN list THEN Some(list[i]) ELSE NoneV

\* The attempts after which change_contents_to of source/itunes_win gives up.
MaxAttempts == 10

\* change_contents_to_inner starts: i is 0, and the first required track
\* makes it 1; without a required track the loop of the remaining tracks
\* starts with i = 1.
StartEdit(e) ==
  IF e.new_content = <<>>
    THEN [e EXCEPT !.k = 0, !.i = 1, !.pc = "remaining"]
    ELSE [e EXCEPT !.k = 1, !.i = 1, !.pc = "required"]

\* The break of the inner loop: the next required track, or the loop of the
\* remaining tracks; both add one to i.
NextRequired(e) ==
  IF e.k < Len(e.new_content)
    THEN [e EXCEPT !.k = @ + 1, !.i = @ + 1]
    ELSE [e EXCEPT !.i = @ + 1, !.pc = "remaining"]

\* One iteration of a loop of change_contents_to_inner of source/rhythmbox.
RhythmboxChangeContents ==
  /\ edit.source = "rhythmbox"
  /\ edit.pc \in {"required", "remaining"}
  /\ UNCHANGED <<srcVars, devVars, config, mgrInfo, earlier, exit_code, cli, probe, chanVars,
                 statusVars, pc, result, localVars, callVars>>
  /\ LET found == RhythmboxIthTrack(edit.list, edit.i)
     IN \/ \* entries(), remove_file, try_from_id or add_file returns Err
           /\ Inject(1)
           /\ edit' = [edit EXCEPT !.pc = "Err"]
        \/ /\ UNCHANGED faults
           /\ edit.pc = "required"
           /\ IF IsSome(found)
                THEN IF found[1] = edit.new_content[edit.k]
                       THEN edit' = NextRequired(edit)
                       ELSE \E l \in RhythmboxRemoveFile(edit.list, found[1]) :
                              edit' = [edit EXCEPT !.list = l]
                ELSE \E l \in RhythmboxAddFile(edit.list, edit.new_content[edit.k]) :
                       edit' = NextRequired([edit EXCEPT !.list = l])
        \/ /\ UNCHANGED faults
           /\ edit.pc = "remaining"
           /\ IF IsSome(found)
                THEN \E l \in RhythmboxRemoveFile(edit.list, found[1]) :
                       edit' = [edit EXCEPT !.list = l]
                ELSE edit' = [edit EXCEPT !.pc = "Ok"]

\* change_contents_to_inner of source/itunes_win returned Err: one more
\* attempt, on the playlist as it is, or Err after MaxAttempts of them.
ITunesTryAgain(e) ==
  IF e.attempts + 1 >= MaxAttempts
    THEN [e EXCEPT !.attempts = @ + 1, !.pc = "Err"]
    ELSE StartEdit([e EXCEPT !.attempts = @ + 1])

\* One iteration of a loop of change_contents_to_inner of source/itunes_win,
\* within the loop of the attempts of change_contents_to.
ITunesChangeContents ==
  /\ edit.source = "itunes"
  /\ edit.pc \in {"required", "remaining"}
  /\ UNCHANGED <<srcVars, devVars, config, mgrInfo, earlier, exit_code, cli, probe, chanVars,
                 statusVars, pc, result, localVars, callVars>>
  /\ LET found == ITunesIthTrack(edit.list, edit.i)
     IN \/ \* Tracks(), item(i), Delete() or AddTrack returns an error of
           \* iTunes (ITUNES_E_OBJECTDELETED) in the loop of the required tracks,
           \* or Delete() in the loop of the remaining tracks
           /\ Inject(1)
           /\ edit.pc = "required" \/ IsSome(found)
           /\ edit' = ITunesTryAgain(edit)
        \/ \* persistent_id() of the i-th track returns Err: not the required id
           /\ Inject(1)
           /\ edit.pc = "required" /\ IsSome(found)
           /\ edit' = [edit EXCEPT !.list = RemoveAt(edit.list, edit.i)]
        \/ \* item(i) returns an error of iTunes in the loop of the remaining
           \* tracks: while let Ok(..) ends
           /\ Inject(1)
           /\ edit.pc = "remaining"
           /\ edit' = [edit EXCEPT !.pc = "Ok"]
        \/ /\ UNCHANGED faults
           /\ edit.pc = "required"
           /\ IF IsSome(found)
                THEN IF found[1] = edit.new_content[edit.k]
                       THEN edit' = NextRequired(edit)
                       ELSE edit' = [edit EXCEPT !.list = RemoveAt(edit.list, edit.i)]
                ELSE edit' = NextRequired(
                       [edit EXCEPT !.list = Append(edit.list, edit.new_content[edit.k])])
        \/ /\ UNCHANGED faults
           /\ edit.pc = "remaining"
           /\ IF IsSome(found)
                THEN edit' = [edit EXCEPT !.list = RemoveAt(edit.list, edit.i)]
                ELSE edit' = [edit EXCEPT !.pc = "Ok"]

\* The calls of SpecContents: change_contents_to(new_content) on a playlist of
\* Rhythmbox or of iTunes, for every content of the playlist and every
\* new_content of at most MaxTrack tracks; no cycle runs.
ScenarioContents ==
  [info |-> "none", incl |-> TRUE, L |-> IdOrder, A |-> IdOrder, D |-> IdOrder,
   files |-> AllFiles,
   rs |-> RatingsWith(3), rm |-> RatingsWith(3), rd |-> RatingsWith(3),
   missing |-> {}, others |-> {}, gone |-> {}, dup |-> {}]

InitContents ==
  /\ Library(ScenarioContents, EmptyMap, <<"P">>, {})
  /\ NoCycle
  /\ probe = NoProbe
  /\ \E source \in {"rhythmbox", "itunes"}, list \in TrackSeqs, new_content \in TrackSeqs :
       edit = StartEdit([NoEdit EXCEPT !.source = source, !.list = list,
                                       !.new_content = new_content])

NextContents == RhythmboxChangeContents \/ ITunesChangeContents

SpecContents == InitContents /\ [][NextContents]_vars

\* The bug of iTunes that change_contents_to of source/itunes_win works around:
\* a call of the attempt returns ITUNES_E_OBJECTDELETED, on the playlist as the
\* iterations before left it.  change_contents_to counts the attempt and starts
\* another one on the playlist fetched again by its id, or returns Err at once
\* when itunes_get_playlist_by_id finds no such playlist.
ITunesObjectDeleted ==
  /\ edit.source = "itunes"
  /\ edit.pc \in {"required", "remaining"}
  /\ edit.pc = "required" \/ IsSome(ITunesIthTrack(edit.list, edit.i))
  /\ \/ /\ UNCHANGED faults
        /\ edit' = ITunesTryAgain(edit)
     \/ /\ Inject(1)
        /\ edit.attempts + 1 < MaxAttempts
        /\ edit' = [edit EXCEPT !.attempts = @ + 1, !.pc = "Err"]
  /\ UNCHANGED <<srcVars, devVars, config, mgrInfo, earlier, exit_code, cli, probe, chanVars,
                 statusVars, pc, result, localVars, callVars>>

\* The calls of SpecRetry: change_contents_to(new_content) on a playlist of
\* iTunes, for every content of the playlist and every new_content of at most
\* MaxTrack tracks, with any number of attempts that fail for the bug.
InitRetry ==
  /\ Library(ScenarioContents, EmptyMap, <<"P">>, {})
  /\ NoCycle
  /\ probe = NoProbe
  /\ \E list \in TrackSeqs, new_content \in TrackSeqs :
       edit = StartEdit([NoEdit EXCEPT !.source = "itunes", !.list = list,
                                       !.new_content = new_content])

NextRetry == ITunesChangeContents \/ ITunesObjectDeleted

SpecRetry == InitRetry /\ [][NextRetry]_vars

\* ------------------------------------------------ functions on their own

\* The rest of the state while one call of a function is followed.
NoOtherCall ==
  /\ Library(ScenarioContents, EmptyMap, <<"P">>, {})
  /\ NoCycle
  /\ edit = NoEdit

ProbeReturns(fn, output) ==
  /\ probe.fn = fn
  /\ ~probe.done
  /\ probe' = [probe EXCEPT !.done = TRUE, !.output = output]
  /\ UNCHANGED <<srcVars, devVars, config, mgrInfo, earlier, exit_code, cli, edit, chanVars,
                 statusVars, pc, result, localVars, callVars, faults>>

\* The file names of SpecNames: the prefix and the suffix of the rating lists
\* in their spelling and in others, around a number in several spellings, and
\* the file of a playlist.
NumberSpellings ==
  {"", "0", "1", "2", "3", "4", "5", "6", "01", "+5", "+", "-1", " 1", "256", "one"}

FileNames ==
  {<<p, tok, x>> : p \in {RatingsPrefix, "Favorites - ", "favourites - "},
                   tok \in NumberSpellings,
                   x \in {RatingsSuffix, " stars", " Stars.m3u"}}
    \cup {<<"abc", ".m3u">>}

\* The ratings passed to favorites_playlist_name in SpecNames.
SomeRatings == 0..9

\* ActualPlaylistKind::classify(m3u_file_name) is called and returns.
ClassifyCall == ProbeReturns("classify", Classify(probe.input))

\* favorites_playlist_name(rating) is called, and classify is called on the
\* name it returned.
FavoritesPlaylistNameCall ==
  /\ probe.fn = "favorites_playlist_name"
  /\ probe' = [fn |-> "classify", input |-> FavoritesPlaylistName(probe.input),
               done |-> FALSE, output |-> <<>>, rating |-> probe.input]
  /\ UNCHANGED <<srcVars, devVars, config, mgrInfo, earlier, exit_code, cli, edit, chanVars,
                 statusVars, pc, result, localVars, callVars, faults>>

InitNames ==
  /\ NoOtherCall
  /\ \/ \E name \in FileNames :
          probe = [fn |-> "classify", input |-> name, done |-> FALSE,
                   output |-> <<>>, rating |-> -1]
     \/ \E rating \in SomeRatings :
          probe = [fn |-> "favorites_playlist_name", input |-> rating,
                   done |-> FALSE, output |-> <<>>]

NextNames == ClassifyCall \/ FavoritesPlaylistNameCall

SpecNames == InitNames /\ [][NextNames]_vars

\* ----------------------------------------- create_folders, remove_folders

\* device::FOLDER_NAME and the two folders of it.
StarSyncFolder == <<"StarSync">>
ConfigFolder == <<"StarSync", "config">>
MusicFolderOfDevice == <<"StarSync", "music">>

\* The files and folders a device of SpecFolders can hold, and the trees of
\* them: what is in a folder is there with the folder.
DevicePaths ==
  {StarSyncFolder, ConfigFolder, MusicFolderOfDevice,
   <<"StarSync", "config", "starsync.json">>, <<"StarSync", "music", "a.mp3">>,
   <<"DCIM">>}

DeviceTrees ==
  {tree \in SUBSET DevicePaths :
     \A path \in tree : Len(path) > 1 => SubSeq(path, 1, Len(path) - 1) \in tree}

RECURSIVE CreateDirs(_, _)
\* std::fs::create_dir on each folder of dirs with `?`: a folder that exists is
\* an Err (AlreadyExists), and the folders before it have been created.
CreateDirs(tree, dirs) ==
  IF dirs = <<>> THEN [ok |-> TRUE, tree |-> tree]
  ELSE IF Head(dirs) \in tree THEN [ok |-> FALSE, tree |-> tree]
  ELSE CreateDirs(tree \cup {Head(dirs)}, Tail(dirs))

\* LocalDevice::create_folders
DiskCreateFolders(tree) ==
  CreateDirs(tree, <<StarSyncFolder, ConfigFolder, MusicFolderOfDevice>>)

\* RootObject::create_folders: each of the three folders is created when no
\* folder of its name is found.
MtpCreateFolders(tree) ==
  LET withMain == IF StarSyncFolder \in tree THEN tree ELSE tree \cup {StarSyncFolder}
      has_music == MusicFolderOfDevice \in withMain
      has_config == ConfigFolder \in withMain
  IN [ok |-> TRUE,
      tree |-> withMain \cup (IF has_music THEN {} ELSE {MusicFolderOfDevice})
                       \cup (IF has_config THEN {} ELSE {ConfigFolder})]

\* tree without the StarSync folder and what is in it.
WithoutStarSync(tree) == {path \in tree : path[1] # StarSyncFolder[1]}

\* Fault variant of the remove_folders of both backends: Ok on a device
\* without StarSync folder.
RemoveFoldersIfAny(tree) == [ok |-> TRUE, tree |-> WithoutStarSync(tree)]

\* LocalDevice::remove_folders: std::fs::remove_dir_all is an Err (NotFound)
\* on a path that does not exist.
DiskRemoveFolders(tree) ==
  IF StarSyncFolder \in tree THEN [ok |-> TRUE, tree |-> WithoutStarSync(tree)]
  ELSE [ok |-> FALSE, tree |-> tree]

\* RootObject::remove_folders: starsync_folder_impl()? is an Err without the
\* folder; delete(true) removes it with what is in it.
MtpRemoveFolders(tree) ==
  IF StarSyncFolder \in tree THEN [ok |-> TRUE, tree |-> WithoutStarSync(tree)]
  ELSE [ok |-> FALSE, tree |-> tree]

\* Device::create_folders is called and returns.
CreateFoldersCall ==
  ProbeReturns("create_folders",
               IF probe.backend = "disk" THEN DiskCreateFolders(probe.input)
               ELSE MtpCreateFolders(probe.input))

\* Device::remove_folders is called and returns.
RemoveFoldersCall ==
  ProbeReturns("remove_folders",
               IF probe.backend = "disk" THEN DiskRemoveFolders(probe.input)
               ELSE MtpRemoveFolders(probe.input))

\* The calls of SpecFolders: create_folders or remove_folders on a device of
\* either backend with any tree of DeviceTrees.
InitFolders ==
  /\ NoOtherCall
  /\ \E fn \in {"create_folders", "remove_folders"}, backend \in {"disk", "mtp"},
        tree \in DeviceTrees :
       probe = [fn |-> fn, backend |-> backend, input |-> tree, done |-> FALSE,
                output |-> <<>>]

NextFolders == CreateFoldersCall \/ RemoveFoldersCall

SpecFolders == InitFolders /\ [][NextFolders]_vars

\* ------------------------------------------- the lookups of the manifest

\* The files_data of the file sets of SpecPaths: the track i has the i-th
\* path of the sequence.
FilesDataOf(paths) ==
  [q \in Range(paths) |->
     [file_size |-> 10, id |-> CHOOSE i \in DOMAIN paths : paths[i] = q, rating |-> 3]]

SomeFileSets ==
  {[common_ancestor |-> LibraryRoot, files_data |-> FilesDataOf(paths), total_size |-> 0] :
     paths \in {<<<<"a">>, <<"B">>>>, <<<<"A">>, <<"d", "X">>>>,
                <<<<"a">>, <<"music", "a">>>>, <<<<"MUSIC", "B">>>>}}

\* The paths looked up in SpecPaths.
SomePaths ==
  {<<"a">>, <<"A">>, <<"b">>, <<"B">>, <<"x">>, <<"d", "x">>, <<"D", "X">>,
   <<"music">>, <<"music", "a">>, <<"music", "A">>, <<"MUSIC", "a">>,
   <<"music", "b">>, <<"MUSIC", "B">>, <<"music", "d", "x">>}

\* update_sync_info builds the manifest of a file set, and the path of probe is
\* looked up in it, as it is, in the other letter case and below "music": by
\* id_for_relative_path, and as an entry of a playlist by m3u_to_song_ids.
LookupCall ==
  LET si == NewSyncInfo(probe.input, EmptyMap)
      path == probe.path
  IN ProbeReturns("id_for_relative_path",
       [si |-> si,
        plain |-> IdForRelativePath(si, path),
        other_case |-> IdForRelativePath(si, OtherCase(path)),
        prefixed |-> IdForRelativePath(si, MusicFolder \o path),
        entry |-> EntryId(si, path),
        entry_prefixed |-> EntryId(si, MusicFolder \o path)])

InitPaths ==
  /\ NoOtherCall
  /\ \E fs \in SomeFileSets, path \in SomePaths :
       probe = [fn |-> "id_for_relative_path", input |-> fs, path |-> path,
                done |-> FALSE, output |-> <<>>]

SpecPaths == InitPaths /\ [][LookupCall]_vars

\* The file of a playlist of an earlier cycle, and a file that is no playlist.
OldList == <<"Old", ".m3u">>
NotesFile == <<"notes", ".txt">>

\* The cycles of SpecStale: the StarSync folder holds, with the list of P and
\* the rating lists, the file Old.m3u and the file notes.txt.  The manifest of
\* the previous cycle knows Old.m3u (as the playlist "Old" with the first
\* track) or not, the source still has a playlist of this id (with the first
\* track or with none) or not, and the config selects P only.
InitStale ==
  \E incl \in BOOLEAN, D \in {IdOrder, RevOrder}, known \in BOOLEAN,
     old \in {<<>>, <<<<>>>>, <<<<1>>>>} :
    /\ srcLists = Override(
           [id \in {"P"} |-> [name |-> "P", tracks |-> IdOrder]],
           [id \in (IF old = <<>> THEN {} ELSE {"Old"}) |->
              [name |-> "Old", tracks |-> old[1]]])
    /\ srcTracks = [t \in TrackIds |->
                      [path |-> LibraryRoot \o TrackRel(t), rating |-> 3,
                       computed |-> FALSE, size |-> 10 * t]]
    /\ config = [playlists |-> <<"P">>, include_ratings |-> incl,
                 use_computed_ratings |-> FALSE]
    /\ devMusic = AllFiles
    /\ devLists = Override(
           RatingLists(TrackIds, RatingsWith(3), {}),
           [f \in {SuitableFilename("P"), OldList, NotesFile} |->
              IF f = SuitableFilename("P")
                THEN CreateM3u([i \in DOMAIN D |-> TrackRel(D[i])], MusicFolder)
                ELSE CreateM3u(<<TrackRel(1)>>, MusicFolder)])
    /\ devInfo = Some(
         LET si == ManifestOf(CurrentHostname, IdOrder, {}, RatingsWith(3))
         IN IF known
              THEN [si EXCEPT !.playlists =
                      Override(@, [f \in {OldList} |-> [id |-> "Old", tracks |-> <<1>>]])]
              ELSE si)
    /\ Fresh

SpecStale == InitStale /\ [][Next]_vars

\* The cycles of SpecUnrated: the five rating lists are on the device and the
\* first track is in none of them or in the list of 3 stars; its file is on
\* the device, in another letter case, or not there (alone or with every other
\* file); it had 3 stars or none at the previous sync and has 3, 4 or none in
\* the source.
ScenariosUnrated ==
  [info : {"this"}, incl : {TRUE},
   L : {IdOrder}, A : {IdOrder}, D : {IdOrder},
   files : {AllFiles, AllFiles \ {TrackRel(1)},
            (AllFiles \ {TrackRel(1)}) \cup {OtherCase(TrackRel(1))}, {}},
   rs : {RatingsWith(3), RatingsWith(4), RatingsWith(0)},
   rm : {RatingsWith(3), RatingsWith(0)},
   rd : {RatingsWith(0), RatingsWith(3)},
   missing : {{}}, others : {{}}, gone : {{}}, dup : {{}}]

InitUnrated == \E s \in ScenariosUnrated : Setup(s)

SpecUnrated == InitUnrated /\ [][Next]_vars

\* ------------------------------------------------------------ properties

\* The Progress values in the order of their declaration.
ProgressList ==
  <<"Started", "ListingFilesOnDevice", "ReverseSyncPlaylists", "ReverseSyncRatings",
    "ListingFilesInSource", "SyncingFiles", "PushingPlaylists", "PushingRatings",
    "UpdatingSyncInfo", "Done">>

\* ProgressList without the two phases of the ratings when they are not synced.
ProgressListFor(include_ratings) ==
  SelectSeq(ProgressList,
            LAMBDA m : include_ratings \/ m \notin {"ReverseSyncRatings", "PushingRatings"})

IsPrefix(s, t) == Len(s) <= Len(t) /\ s = SubSeq(t, 1, Len(s))

\* s takes its elements from t, each at most once and in the order of t.
InOrderOnce(s, t) ==
  /\ Range(s) \subseteq Range(t)
  /\ \A i, j \in DOMAIN s :
       i < j => (CHOOSE k \in DOMAIN t : t[k] = s[i]) < (CHOOSE k \in DOMAIN t : t[k] = s[j])

\* Nothing has been sent, and neither the source nor the device written.
NothingDone ==
  /\ progress = <<>> /\ warnSent = 0
  /\ ccCalls = <<>> /\ srCalls = <<>> /\ devLog = <<>>
  /\ devInfo = mgrInfo

\* C1: until the acknowledged validator has been received no status message is
\* sent and neither the source nor the device is written; an acknowledged
\* validator that still carries the hostname mismatch makes start_sync return
\* the SanityChecks error, and source, device and manifest are then as before.
C1_HandshakeFirst ==
  /\ [](pc \in {"new", "recv"} \/ result = ErrOf("SanityChecks") => NothingDone)
  /\ [][(/\ pc = "recv" /\ pc' # "recv"
          /\ inbound # <<>>
          /\ Head(inbound).last_sync_computer_mismatch # NoneV)
         => /\ result' = ErrOf("SanityChecks")
            /\ UNCHANGED <<srcVars, devVars, statusVars, callVars>>]_vars

\* C1 happens: a cycle rejected for the unacknowledged mismatch.
C1_Rejected ==
  /\ result = ErrOf("SanityChecks")
  /\ IsSome(mgrInfo) /\ mgrInfo[1].hostname # CurrentHostname

\* C2: when the driver has dropped the inbound sender without answering,
\* start_sync returns an Err, without having run anything of the cycle and
\* without a panic of the worker.
C2_DropReturnsErr ==
  (~inTxAlive /\ outRxAlive /\ inbound = <<>> /\ pc \notin {"new", "recv"})
    => (result.tag = "Err" /\ pc = "returned" /\ NothingDone)

\* C3 as stated: the Progress messages follow the order of ProgressList, each at
\* most once, and a cycle that ends with a fatal error has sent a prefix of
\* ProgressList.
C3_FatalPrefixOfAll ==
  /\ InOrderOnce(progress, ProgressList)
  /\ result.tag = "Err" => IsPrefix(progress, ProgressList)

\* C3: the Progress messages sent so far are a prefix of ProgressList, from which
\* ReverseSyncRatings and PushingRatings are left out when include_ratings is
\* false; so they follow its order, each at most once, and a cycle that ends with
\* a fatal error has sent a prefix of it and a cycle that returns Ok all of it.
C3_ProgressInOrder ==
  /\ InOrderOnce(progress, ProgressList)
  /\ IsPrefix(progress, ProgressListFor(config.include_ratings))
  /\ result.tag = "Ok" => progress = ProgressListFor(config.include_ratings)

\* C3 happens: a fatal error after the phases of the ratings have been skipped.
C3_FatalWithoutRatings ==
  /\ result.tag = "Err"
  /\ ~config.include_ratings
  /\ "ListingFilesInSource" \in Range(progress)

\* The phase that ends with each fatal error.
PhaseOfError(e) ==
  CASE e = "DeviceReadError" -> "ListingFilesOnDevice"
    [] e = "SongScanningFailed" -> "ListingFilesInSource"
    [] e = "SyncingFilesFailed" -> "SyncingFiles"
    [] e = "PushingPlaylistsFailed" -> "PushingPlaylists"
    [] e = "UpdateSyncInfoFailed" -> "UpdatingSyncInfo"

\* C4: start_sync returns Ok exactly when Done has been sent, and then with the
\* number of Warning messages passed to the sender, delivered or not; a fatal
\* error is returned as Err, the phase it ends is the last one sent, and after
\* the return nothing is sent or written any more.
C4_OkCountsWarnings ==
  /\ [](/\ (result.tag = "Ok") <=> ("Done" \in Range(progress))
        /\ result.tag = "Ok" => result.warnings = warnSent
        /\ result.tag \in {"Ok", "Err"} <=> pc = "returned"
        /\ (result.tag = "Err" /\ result.error # "SanityChecks")
             => progress[Len(progress)] = PhaseOfError(result.error))
  /\ [][pc = "returned" => UNCHANGED <<srcVars, devVars, statusVars, callVars, result>>]_vars

\* C4 happens: a cycle returns Ok with warnings that nobody received.
C4_OkWithUndeliveredWarnings ==
  result.tag = "Ok" /\ result.warnings > 0 /\ ~statusRxAlive

\* The successful push_sync_infos calls, by their position among the device calls.
ManifestWrites ==
  {i \in DOMAIN devLog : devLog[i].op = "push_sync_infos" /\ devLog[i].ok}

C6_SourceBeforeDevice ==
  [][/\ (devLog # <<>> \/ devLog' # devLog) => (ccCalls' = ccCalls /\ srCalls' = srCalls)
     /\ (srCalls # <<>> \/ srCalls' # srCalls) => ccCalls' = ccCalls]_vars

\* C6 happens: a cycle changes a playlist of the source, sets a rating and
\* writes the device.
C6_AllThreeWrites ==
  ccCalls # <<>> /\ srCalls # <<>> /\ devLog # <<>>

\* The paths of S in lower case.
LowerSet(S) == {ToLower(p) : p \in S}

\* The warnings sent in a phase that has been entered.
WarningsOf(phase) ==
  warnsByPhase[CHOOSE k \in DOMAIN progress : progress[k] = phase]

\* The targets of the device calls op, failed ones included.
Targets(op) == {devLog[i].target : i \in {j \in DOMAIN devLog : devLog[j].op = op}}

\* sync_files has gone through its two loops.
SyncFilesDone ==
  "SyncingFiles" \in Range(progress) /\ result.error # "SyncingFilesFailed"

\* No folder failed to be listed, no file to be removed, and no file to be pushed
\* at its last attempt.
NoFileFailure ==
  /\ WarningsOf("ListingFilesOnDevice") = 0
  /\ \A i \in DOMAIN devLog :
       /\ devLog[i].op = "delete_file" => devLog[i].ok
       /\ (devLog[i].op = "push_file" /\ ~devLog[i].ok)
            => \E j \in DOMAIN devLog :
                 /\ j > i /\ devLog[j].op = "push_file" /\ devLog[j].ok
                 /\ devLog[j].target = devLog[i].target

C8_DifferenceIgnoresCase ==
  SyncFilesDone =>
    LET present == files_on_device
        expected == DOMAIN file_set.files_data
    IN /\ Targets("delete_file")
            = {l \in present : \A r \in expected : ToLower(l) # ToLower(r)}
       /\ Targets("push_file")
            = {l \in expected : \A r \in present : ToLower(l) # ToLower(r)}
       /\ \A l \in present, r \in expected :
            ToLower(l) = ToLower(r)
              => l \notin Targets("delete_file") /\ r \notin Targets("push_file")

\* C8 happens: sync_files has run with a file on the device that is expected in
\* another letter case, next to a file to remove.
C8_SameFileOtherCase ==
  /\ SyncFilesDone
  /\ \E l \in files_on_device, r \in DOMAIN file_set.files_data :
       l # r /\ ToLower(l) = ToLower(r)
  /\ Targets("delete_file") # {}

\* The results of the push_music_file calls for the file q, in their order.
PushResults(q) ==
  LET calls == SelectSeq(devLog, LAMBDA c : c.op = "push_file" /\ c.target = q)
  IN [i \in DOMAIN calls |-> calls[i].ok]

\* C9: a file is pushed with one call, or with two when the first one failed,
\* and never with a third one; a file that failed twice is two warnings and no
\* error: every file to push has been tried, and sync_files has not failed.
C9_PushRetriedOnce ==
  /\ \A q \in Targets("push_file") :
       PushResults(q) \in {<<TRUE>>, <<FALSE, TRUE>>, <<FALSE, FALSE>>}
  /\ Targets("push_file") # {} => SyncFilesDone
  /\ SyncFilesDone =>
       /\ \A q \in DOMAIN file_set.files_data :
            (\A r \in files_on_device : ToLower(q) # ToLower(r))
              => q \in Targets("push_file")
       /\ WarningsOf("SyncingFiles")
            = Cardinality({i \in DOMAIN devLog :
                            devLog[i].op \in {"push_file", "delete_file"} /\ ~devLog[i].ok})

\* C9 happens: a file failed twice, another file has been pushed after it, and
\* the cycle has gone on to the playlists.
C9_GaveUpAndWentOn ==
  /\ \E i, j \in DOMAIN devLog :
       /\ i < j
       /\ devLog[i].op = "push_file" /\ PushResults(devLog[i].target) = <<FALSE, FALSE>>
       /\ devLog[j].op = "push_file" /\ devLog[j].ok
  /\ "PushingPlaylists" \in Range(progress)
  /\ result.tag = "Ok"

\* The step that runs reverse_sync_playlists.
ReverseSyncPlaylistsStep ==
  /\ "ReverseSyncPlaylists" \notin Range(progress)
  /\ "ReverseSyncPlaylists" \in Range(progress')

\* C10: for a list of the device that the manifest knows (order A) and whose
\* playlist the source holds (order L), with D the ids of the list and M the
\* merge of A, L and D, the cycle calls change_contents_to at most once; it
\* calls it only when D # L and M # L, with M, and it does call it then unless
\* reading the list, reading the playlist or the merge failed.
C10_ChangeIffMergeDiffers ==
  [][/\ ~ReverseSyncPlaylistsStep => ccCalls' = ccCalls
     /\ ReverseSyncPlaylistsStep =>
          LET new == SubSeq(ccCalls', Len(ccCalls) + 1, Len(ccCalls'))
          IN /\ ccCalls = <<>>
             /\ ~IsSome(previous_sync_info) => new = <<>>
             /\ IsSome(previous_sync_info) =>
                  LET si == previous_sync_info[1]
                  IN /\ \A i \in DOMAIN new :
                          \E f \in DOMAIN devLists \cap DOMAIN si.playlists :
                            si.playlists[f].id = new[i].id
                     /\ \A f \in DOMAIN devLists \cap DOMAIN si.playlists :
                          si.playlists[f].id \in DOMAIN srcLists =>
                            LET id == si.playlists[f].id
                                A == si.playlists[f].tracks
                                L == srcLists[id].tracks
                                D == M3uToSongIds(devLists[f], si)
                                M == ThreeWayMerge(A, L, D)
                                made == {i \in DOMAIN new : new[i].id = id}
                            IN /\ Cardinality(made) <= 1
                               /\ made # {} => D # L /\ M # L
                               /\ \A i \in made : new[i].content = M
                               /\ (D # L /\ M # L /\ faults' = faults)
                                    => made # {}]_vars

\* C10 happens: the source has been changed to a merge that is neither the
\* order of the device nor the order of the previous sync.
C10_ChangedToMerge ==
  /\ pc = "reverse_sync_ratings"
  /\ \E i \in DOMAIN ccCalls :
       LET f == SuitableFilename(srcLists[ccCalls[i].id].name)
       IN /\ ccCalls[i].ok
          /\ ccCalls[i].content = srcLists[ccCalls[i].id].tracks
          /\ ccCalls[i].content # M3uToSongIds(devLists[f], previous_sync_info[1])
          /\ ccCalls[i].content # previous_sync_info[1].playlists[f].tracks

\* C11: for all sequences A, L and D the merge of A, L and A is L and the merge
\* of A, A and D is D; so in a cycle a list of the device that is as at the
\* previous sync never changes the source, and a playlist of the source that is
\* as at the previous sync is changed to the order of the device when that one
\* differs (unless reading or merging failed).
C11_MergeIdentities ==
  /\ [](pc = "new" =>
          \A A \in TrackSeqs, X \in TrackSeqs :
            ThreeWayMerge(A, X, A) = X /\ ThreeWayMerge(A, A, X) = X)
  /\ [][(ReverseSyncPlaylistsStep /\ IsSome(previous_sync_info)) =>
          LET si == previous_sync_info[1]
              new == SubSeq(ccCalls', Len(ccCalls) + 1, Len(ccCalls'))
          IN \A f \in DOMAIN devLists \cap DOMAIN si.playlists :
               si.playlists[f].id \in DOMAIN srcLists =>
                 LET id == si.playlists[f].id
                     A == si.playlists[f].tracks
                     L == srcLists[id].tracks
                     D == M3uToSongIds(devLists[f], si)
                     made == {i \in DOMAIN new : new[i].id = id}
                 IN /\ D = A => made = {}
                    /\ (L = A /\ D # A /\ faults' = faults)
                         => made # {} /\ \A i \in made : new[i].content = D]_vars

\* C11 happens: a reorder made on the device, the source being as at the
\* previous sync, has been written to the source as is.
C11_DeviceOrderAdopted ==
  /\ pc = "reverse_sync_ratings"
  /\ \E i \in DOMAIN ccCalls :
       LET f == SuitableFilename(srcLists[ccCalls[i].id].name)
       IN /\ ccCalls[i].ok
          /\ ccCalls[i].before = previous_sync_info[1].playlists[f].tracks
          /\ ccCalls[i].content = M3uToSongIds(devLists[f], previous_sync_info[1])
          /\ ccCalls[i].content = srcLists[ccCalls[i].id].tracks
          /\ Len(ccCalls[i].content) > 1

\* The tracks that the rating list of n stars of the device holds, and the
\* ratings that the lists of the device give to the track t.
DeviceBucket(si, n) ==
  IF FavoritesPlaylistName(n) \in DOMAIN devLists
  THEN Range(M3uToSongIds(devLists[FavoritesPlaylistName(n)], si))
  ELSE {}

DeviceRatings(si, t) == {n \in 1..5 : t \in DeviceBucket(si, n)}

\* The track t is a file of the device that the manifest knows.
OnDevice(si, t) == \E p \in files_on_device : IdForRelativePath(si, p) = Some(t)

\* The rating of t read from the device: its list, or none (0) without a list.
DeviceRating(si, t) ==
  IF DeviceRatings(si, t) = {} THEN 0 ELSE CHOOSE n \in DeviceRatings(si, t) : TRUE

\* The five rating lists are on the device and no track is in two of them.
RatingListsSound(si) ==
  /\ \A n \in 1..5 : FavoritesPlaylistName(n) \in DOMAIN devLists
  /\ \A t \in TrackIds : Cardinality(DeviceRatings(si, t)) <= 1

\* The step that runs reverse_sync_ratings, and the set_rating calls it makes.
ReverseSyncRatingsStep ==
  /\ "ReverseSyncRatings" \notin Range(progress)
  /\ "ReverseSyncRatings" \in Range(progress')

NewRatingCalls == SubSeq(srCalls', Len(srCalls) + 1, Len(srCalls'))

\* No list of the device failed to be listed or read in this step: the failures
\* of the step are those of its set_rating calls.
NoListFailure ==
  faults' - faults = Cardinality({i \in DOMAIN NewRatingCalls : ~NewRatingCalls[i].ok})

\* C12: set_rating is called only in reverse_sync_ratings, at most once for a
\* track t, and only with the rating r that the device gives to t, when r is not
\* the rating of t in the previous manifest, t is in the source and the rating
\* of the source is that of the manifest; when the five lists are there, sound
\* and readable it is called for every such t.  So a track rated anew on both
\* sides keeps the rating of the source.
C12_SetRatingIffDeviceOnlyChanged ==
  [][/\ ~ReverseSyncRatingsStep => srCalls' = srCalls
     /\ (ReverseSyncRatingsStep /\ ~IsSome(previous_sync_info)) => srCalls' = srCalls
     /\ (ReverseSyncRatingsStep /\ IsSome(previous_sync_info)) =>
          LET si == previous_sync_info[1]
              new == NewRatingCalls
          IN /\ \A k \in DOMAIN new : new[k].id \in TrackIds
             /\ \A t \in TrackIds :
                  LET made == {i \in DOMAIN new : new[i].id = t}
                      r == DeviceRating(si, t)
                      m == RatingForId(si, t)
                      may == /\ DeviceRatings(si, t) # {} \/ OnDevice(si, t)
                             /\ r # m
                             /\ t \in DOMAIN srcTracks
                             /\ TrackRating(t, config.use_computed_ratings) = m
                  IN /\ Cardinality(made) <= 1
                     /\ made # {} => may /\ \A i \in made : new[i].rating = r
                     /\ (may /\ RatingListsSound(si) /\ NoListFailure) => made # {}]_vars

\* C12 happens: the rating given on the device has been set on the source.
C12_RatingSetOnSource ==
  /\ pc = "required_files"
  /\ \E i \in DOMAIN srCalls :
       /\ srCalls[i].ok /\ srCalls[i].rating = 5
       /\ srcTracks[srCalls[i].id].rating = 5
       /\ RatingForId(previous_sync_info[1], srCalls[i].id) = 3

\* C13: a set_rating call never sets the rating that the previous manifest
\* holds for its track, and reverse_sync_ratings makes no call for a track whose
\* rating read from the device (its list, or none for a file of the device in
\* no list) is the rating of the previous manifest.
C13_UnchangedRatingNotSet ==
  /\ [](\A i \in DOMAIN srCalls :
          srCalls[i].rating # RatingForId(previous_sync_info[1], srCalls[i].id))
  /\ [][(ReverseSyncRatingsStep /\ IsSome(previous_sync_info)) =>
          LET si == previous_sync_info[1]
          IN \A t \in TrackIds :
               DeviceRating(si, t) = RatingForId(si, t)
                 => \A i \in DOMAIN NewRatingCalls : NewRatingCalls[i].id # t]_vars

\* C13 happens: reverse_sync_ratings has set a rating, and has left alone a
\* track that is in the list of its previous rating.
C13_OtherTrackLeftAlone ==
  /\ pc = "required_files"
  /\ srCalls # <<>>
  /\ \E t \in TrackIds :
       /\ DeviceRatings(previous_sync_info[1], t) # {}
       /\ DeviceRating(previous_sync_info[1], t) = RatingForId(previous_sync_info[1], t)
       /\ \A i \in DOMAIN srCalls : srCalls[i].id # t

\* One of the five rating lists is not in the playlist folder of the device.
RatingListMissing == \E n \in 1..5 : FavoritesPlaylistName(n) \notin DOMAIN devLists

\* C14: when reverse_sync_ratings runs with a manifest and one of the five
\* rating lists is not on the device, it makes no set_rating call and leaves the
\* ratings of the source alone, its error is one warning (the only one of the
\* phase unless the folder cannot be read) and not the end of the cycle, which
\* goes on with required_files.
C14_MissingListAborts ==
  [][(ReverseSyncRatingsStep /\ IsSome(previous_sync_info) /\ RatingListMissing) =>
       /\ srCalls' = srCalls
       /\ srcTracks' = srcTracks
       /\ n_warns' >= n_warns + 1
       /\ faults' = faults => n_warns' = n_warns + 1
       /\ result' = Pending
       /\ pc' = "required_files"]_vars

\* C14 happens: a cycle that found no list of 2 stars on the device (it has
\* removed the list of 3 stars, and none of 2 stars) has ended Ok with its one
\* warning, without a set_rating call and after all the phases.
C14_DoneAfterMissingList ==
  /\ pc = "returned"
  /\ result = OkWith(1)
  /\ progress = ProgressList
  /\ WarningsOf("ReverseSyncRatings") = 1
  /\ srCalls = <<>>
  /\ FavoritesPlaylistName(3) \in Targets("delete_playlist")
  /\ FavoritesPlaylistName(2) \notin Targets("delete_playlist")

\* A track is in two rating lists of the device.
TrackInTwoRatingLists ==
  \E t \in TrackIds : Cardinality(DeviceRatings(previous_sync_info[1], t)) >= 2

\* C15: when reverse_sync_ratings runs with a manifest and a track is in two
\* rating lists of the device, it makes no set_rating call and leaves the ratings
\* of the source alone, its error is a warning and not the end of the cycle,
\* which goes on with required_files.
C15_DuplicateRatingAborts ==
  [][(ReverseSyncRatingsStep /\ IsSome(previous_sync_info) /\ TrackInTwoRatingLists) =>
       /\ srCalls' = srCalls
       /\ srcTracks' = srcTracks
       /\ n_warns' >= n_warns + 1
       /\ result' = Pending
       /\ pc' = "required_files"]_vars

\* C15 happens: all five rating lists are on the device, the first track is in
\* the lists of 4 and of 5 stars while the manifest has it at 3 stars as the
\* source, and the cycle has gone through sync_files without a set_rating call.
C15_WentOnAfterDuplicate ==
  /\ pc = "update_playlists"
  /\ ~RatingListMissing
  /\ DeviceRatings(previous_sync_info[1], 1) = {4, 5}
  /\ RatingForId(previous_sync_info[1], 1) = 3
  /\ srcTracks[1].rating = 3
  /\ WarningsOf("ReverseSyncRatings") >= 1
  /\ "SyncingFiles" \in Range(progress)
  /\ srCalls = <<>>
  /\ faults = 0

\* The step that runs push_star_playlists, and the device calls it makes.
PushStarPlaylistsStep ==
  /\ "PushingRatings" \notin Range(progress)
  /\ "PushingRatings" \in Range(progress')

NewDeviceCalls == SubSeq(devLog', Len(devLog) + 1, Len(devLog'))

\* The entries of the rating list of n stars: the files of the file set with
\* this rating, below the music folder.
StarEntries(n) ==
  {MusicFolder \o q : q \in {r \in DOMAIN file_set.files_data :
                                file_set.files_data[r].rating = n}}

\* The rating lists that the step pushes, failed pushes included.
NewStarTargets ==
  {NewDeviceCalls[i].target :
     i \in {j \in DOMAIN NewDeviceCalls : NewDeviceCalls[j].op = "push_playlist"}}

\* The second cycle is about to run reverse_sync_ratings.
SecondReverseSyncRatings == Len(earlier) = 1 /\ pc = "reverse_sync_ratings"

C17_OnlyNonEmptyPushed ==
  [][PushStarPlaylistsStep =>
       \A n \in 1..5 :
         FavoritesPlaylistName(n) \in NewStarTargets <=> StarEntries(n) # {}]_vars

\* C17, amended: push_star_playlists pushes the list of n stars for each of the
\* five ratings, whether a file of the file set has this rating or not, and the
\* list of a rating that no file has is pushed without any entry.
C17_EmptyBucketsPushedToo ==
  [][PushStarPlaylistsStep =>
       /\ NewStarTargets = {FavoritesPlaylistName(n) : n \in 1..5}
       /\ \A i \in DOMAIN NewDeviceCalls :
            NewDeviceCalls[i].content = <<>>
              <=> StarEntries(ClassifyStars(NewDeviceCalls[i].target)) = {}]_vars

\* C17 happens: in a cycle that found the five rating lists on the device, no
\* file has 4 stars and the list of 4 stars has been pushed without entry, next
\* to a list of 3 stars with entries.
C17_EmptyListOfFourPushed ==
  /\ pc = "update_sync_info"
  /\ \A n \in 1..5 : FavoritesPlaylistName(n) \in Targets("delete_playlist")
  /\ StarEntries(4) = {}
  /\ StarEntries(3) # {}
  /\ \E i \in DOMAIN devLog :
       /\ devLog[i].op = "push_playlist"
       /\ devLog[i].target = FavoritesPlaylistName(4)
       /\ devLog[i].content = <<>>

\* The cycle has returned Ok.
ReturnedOk == pc = "returned" /\ result.tag = "Ok"

\* The file of the playlist name holds, read through the manifest of the device,
\* the tracks of the playlist of the source, and so does the manifest.
DeviceListIsSourceList(name) ==
  LET pl == PlaylistByName(name)
      file == SuitableFilename(name)
      si == devInfo[1]
  IN /\ IsSome(pl)
     /\ file \in DOMAIN devLists
     /\ M3uToSongIds(devLists[file], si) = srcLists[pl[1]].tracks
     /\ file \in DOMAIN si.playlists
     /\ si.playlists[file].tracks = srcLists[pl[1]].tracks

SecondReturnedOk == ReturnedOk /\ Len(earlier) = 1

UpdatePlaylistsStep ==
  /\ "PushingPlaylists" \notin Range(progress)
  /\ "PushingPlaylists" \in Range(progress')
  /\ pc' # "returned"

\* The config lists two playlists of the source with the same file name, whose
\* tracks are all below the common ancestor of the file set.
TwoListsOneFile ==
  /\ Len(config.playlists) = 2
  /\ \A i \in 1..2 : IsSome(PlaylistByName(config.playlists[i]))
  /\ SuitableFilename(config.playlists[1]) = SuitableFilename(config.playlists[2])
  /\ \A i \in 1..2 :
       LET tracks == srcLists[PlaylistByName(config.playlists[i])[1]].tracks
       IN \A k \in DOMAIN tracks :
            IsSome(StripPrefix(srcTracks[tracks[k]].path, file_set.common_ancestor))

\* C20: when the config lists two playlists of the source with the same file
\* name, which to_m3u can write, update_playlists sends at most one warning more than the calls that
\* fail; when no call fails it sends exactly one, and then the one playlist file
\* of the device has the entries of the second playlist, whose id and tracks are
\* the one entry of the PlaylistsSet for the manifest.
C20_DuplicateWarnsOnceAndLaterWins ==
  [][(UpdatePlaylistsStep /\ TwoListsOneFile) =>
       LET later == PlaylistByName(config.playlists[2])[1]
           file == SuitableFilename(config.playlists[2])
       IN /\ n_warns' <= n_warns + 1 + (faults' - faults)
          /\ faults' = faults =>
               /\ n_warns' = n_warns + 1
               /\ {f \in DOMAIN devLists' : ClassifyStars(f) = 0} = {file}
               /\ devLists'[file] = ToM3u(later, file_set.common_ancestor, MusicFolder)[1]
               /\ DOMAIN playlists' = {file}
               /\ playlists'[file] = [id |-> later, tracks |-> srcLists[later].tracks]]_vars

\* C20 happens: with the playlists "P" and "P?" in this order and with
\* different tracks, a cycle has returned Ok with one warning, and the file
\* P.m3u, read through the manifest, and the manifest both have the tracks of
\* the second.
C20_SecondListOnDeviceAndInManifest ==
  /\ ReturnedOk
  /\ result = OkWith(1)
  /\ config.playlists = <<"P", "P?">>
  /\ WarningsOf("PushingPlaylists") = 1
  /\ srcLists["Q"].tracks # srcLists["P"].tracks
  /\ Len(srcLists["Q"].tracks) = MaxTrack
  /\ devInfo[1].playlists[<<"P", ".m3u">>] = [id |-> "Q", tracks |-> srcLists["Q"].tracks]
  /\ M3uToSongIds(devLists[<<"P", ".m3u">>], devInfo[1]) = srcLists["Q"].tracks
  /\ faults = 0

\* The sum of the file_size of the entries of files_data.
SizesOfFilesData ==
  SumOver([q \in DOMAIN file_set.files_data |-> file_set.files_data[q].file_size],
          DOMAIN file_set.files_data)

\* C21: total_size of the FileSet built by required_files is the sum of the
\* file_size recorded in files_data over all its entries, however many times
\* the playlists of the config hold a path.
C21_TotalSizeIsSumOfSizes == file_set.total_size = SizesOfFilesData

\* The step that runs required_files.
RequiredFilesStep ==
  /\ "ListingFilesInSource" \notin Range(progress)
  /\ "ListingFilesInSource" \in Range(progress')

\* The absolute paths of the tracks of the playlists of the config.
SelectedPaths ==
  {srcTracks[t].path :
     t \in UNION {Range(srcLists[id].tracks) :
                    id \in {l \in DOMAIN srcLists :
                              \E i \in DOMAIN config.playlists :
                                srcLists[l].name = config.playlists[i]}}}

\* There is no path, or two paths on different drives.
NoSharedFolder(paths) == paths = {} \/ \E p, q \in paths : p[1] # q[1]

\* The write calls on the device.
WriteOps == {"delete_file", "push_file", "delete_playlist", "push_playlist",
             "push_sync_infos"}

\* C22: when required_files reads every selected playlist and track and their
\* paths have no common ancestor (or there is no path), the cycle returns an
\* Err in this step.  A cycle that returned this Err has made no call that
\* writes to the device, whose manifest is as with_device found it, and makes
\* none later.
C22_NoCommonAncestorIsFatal ==
  /\ [][(RequiredFilesStep /\ faults' = faults /\ NoSharedFolder(SelectedPaths)) =>
          /\ pc' = "returned"
          /\ result' = ErrOf("SongScanningFailed")
          /\ devLog' = devLog /\ devMusic' = devMusic
          /\ devLists' = devLists /\ devInfo' = devInfo]_vars
  /\ [](result = ErrOf("SongScanningFailed") =>
          /\ \A i \in DOMAIN devLog : devLog[i].op \notin WriteOps
          /\ devInfo = mgrInfo
          /\ "SyncingFiles" \notin Range(progress))
  /\ [][result = ErrOf("SongScanningFailed") =>
          /\ devMusic' = devMusic /\ devLists' = devLists
          /\ devInfo' = devInfo /\ devLog' = devLog]_vars

\* C22 happens: the two tracks of the playlist are on different drives, and the
\* cycle has returned the Err of required_files without a call on the device,
\* which still has its stray file and its manifest.
C22_TwoDrivesNoSync ==
  /\ result = ErrOf("SongScanningFailed")
  /\ faults = 0
  /\ srcLists["P"].tracks = IdOrder
  /\ srcTracks[1].path[1] # srcTracks[2].path[1]
  /\ <<"x">> \in devMusic
  /\ IsSome(devInfo)
  /\ devLog = <<>>

\* C23: whenever change_contents_to(new_content) of a playlist of Rhythmbox
\* returns Ok, the tracks of the playlist are new_content: the same length, the
\* same order, the same repeated tracks, for every content before the call.
C23_RhythmboxContentsAreNewContent ==
  (edit.source = "rhythmbox" /\ edit.pc = "Ok") => edit.list = edit.new_content

\* C24: whenever change_contents_to(new_content) of a playlist of iTunes
\* returns Ok, the tracks of the playlist are new_content, for every content
\* before the call; and the call ends, as every iteration goes to the next
\* required track or removes one track.
C24_ITunesContentsAreNewContent ==
  /\ [](edit.source = "itunes" /\ edit.pc = "Ok" => edit.list = edit.new_content)
  /\ [][(edit.source = "itunes" /\ edit'.attempts = edit.attempts) =>
          \/ edit'.pc = "Ok"
          \/ edit'.k + B2N(edit'.pc = "remaining") > edit.k + B2N(edit.pc = "remaining")
          \/ Len(edit'.list) < Len(edit.list)]_vars

\* C25: classify(filename) is Ratings(n) exactly when filename is
\* "Favourites - ", the one digit n of 1..5 and " stars.m3u"; every other file
\* name (0 or 6 stars, no .m3u, "Favorites", any other spelling of the number)
\* is Regular(filename).
C25_RatingsOnlyForExactNames ==
  (probe.fn = "classify" /\ probe.done) =>
    IF \E n \in 1..5 : probe.input = <<"Favourites - ", ToString(n), " stars.m3u">>
      THEN \E n \in 1..5 :
             /\ probe.input = <<"Favourites - ", ToString(n), " stars.m3u">>
             /\ probe.output = [kind |-> "Ratings", stars |-> n]
      ELSE probe.output = [kind |-> "Regular", name |-> probe.input]

\* C26: classify returns a kind for every file name, and it is the inverse of
\* the naming of the rating lists: classify(favorites_playlist_name(n)) is
\* Ratings(n) for n of 1..5, and the names of two ratings differ.
C26_ClassifyInvertsFavoritesName ==
  /\ (probe.fn = "classify" /\ probe.done) =>
        \/ probe.output = [kind |-> "Regular", name |-> probe.input]
        \/ \E n \in 1..5 : probe.output = [kind |-> "Ratings", stars |-> n]
  /\ (probe.fn = "classify" /\ probe.done /\ probe.rating \in 1..5) =>
        probe.output = [kind |-> "Ratings", stars |-> probe.rating]
  /\ \A m, n \in 1..5 :
        m # n => FavoritesPlaylistName(m) # FavoritesPlaylistName(n)

C26_NameOfThreeStarsClassified ==
  /\ probe.fn = "classify" /\ probe.done /\ probe.rating = 3
  /\ probe.input = <<"Favourites - ", "3", " stars.m3u">>
  /\ probe.output = [kind |-> "Ratings", stars |-> 3]

\* C27: the sync command of the CLI ends with the exit code 0 when the cycle
\* returned Ok, with or without warnings, and with another exit code when it
\* returned a fatal error, SanityChecks included.
C27_ExitCodeTellsFatalError ==
  IsSome(exit_code) =>
    /\ result.tag = "Ok" => exit_code = Some(0)
    /\ result.tag = "Err" => exit_code # Some(0)

\* C28 as stated: on every backend create_folders succeeds on a device that
\* has the folders or some of them and leaves the three folders, and
\* remove_folders succeeds on a device without StarSync folder and leaves it
\* as it is.
C28_FoldersIdempotent ==
  /\ (probe.fn = "create_folders" /\ probe.done) =>
        /\ probe.output.ok
        /\ probe.output.tree =
             probe.input \cup {StarSyncFolder, ConfigFolder, MusicFolderOfDevice}
  /\ (probe.fn = "remove_folders" /\ probe.done /\ StarSyncFolder \notin probe.input) =>
        probe.output = [ok |-> TRUE, tree |-> probe.input]

\* C28: create_folders of the MTP backend succeeds on every device and leaves
\* the three folders, with what the device had; that of the disk backend does
\* so on a device without StarSync folder, and returns Err and changes nothing
\* on a device with one.  remove_folders of both backends removes the StarSync
\* folder with what is in it and nothing else, and returns Err and changes
\* nothing on a device without StarSync folder.
C28_FoldersOnceOnly ==
  /\ (probe.fn = "create_folders" /\ probe.done) =>
        IF probe.backend = "mtp" \/ StarSyncFolder \notin probe.input
          THEN /\ probe.output.ok
               /\ probe.output.tree =
                    probe.input \cup {StarSyncFolder, ConfigFolder, MusicFolderOfDevice}
          ELSE probe.output = [ok |-> FALSE, tree |-> probe.input]
  /\ (probe.fn = "remove_folders" /\ probe.done) =>
        IF StarSyncFolder \in probe.input
          THEN /\ probe.output.ok
               /\ probe.output.tree = probe.input \ {path \in DevicePaths : path[1] = "StarSync"}
          ELSE probe.output = [ok |-> FALSE, tree |-> probe.input]

C28_DiskCreateOnInitedFails ==
  /\ probe.fn = "create_folders" /\ probe.done /\ probe.backend = "disk"
  /\ probe.input = {StarSyncFolder, ConfigFolder, MusicFolderOfDevice}
  /\ ~probe.output.ok

\* C29 as stated: id_for_relative_path of "music/" and p is
\* id_for_relative_path of p.
C29_LookupToleratesMusic ==
  (probe.fn = "id_for_relative_path" /\ probe.done) =>
    probe.output.prefixed = probe.output.plain

\* C29: m3u_to_song_ids strips one leading "music" of an entry and looks the
\* rest up: the entry "music/" and p has the id that id_for_relative_path
\* gives for p, and so has the entry p when p is not below "music";
\* id_for_relative_path itself looks up the lowercased path as it is, "music"
\* included.
C29_EntriesTolerateMusic ==
  (probe.fn = "id_for_relative_path" /\ probe.done) =>
    /\ probe.output.entry_prefixed = probe.output.plain
    /\ probe.path[1] # "music" => probe.output.entry = probe.output.plain
    /\ IsSome(probe.output.prefixed) =>
          ToLower(<<"music">> \o probe.path) \in DOMAIN probe.output.si.song_data

C29_EntryFoundLookupNot ==
  /\ probe.fn = "id_for_relative_path" /\ probe.done
  /\ probe.path = <<"B">>
  /\ probe.output.plain = Some(2)
  /\ probe.output.entry_prefixed = Some(2)
  /\ probe.output.prefixed = NoneV

\* C30: every key of song_data of a manifest built by update_sync_info is in
\* lower case, and the lookups do not depend on the letter case: a path in
\* capitals resolves to the track of the file set recorded under the path in
\* lower case.
C30_LowercaseKeysAnyCaseLookups ==
  (probe.fn = "id_for_relative_path" /\ probe.done) =>
    /\ \A k \in DOMAIN probe.output.si.song_data :
          \A i \in DOMAIN k : k[i] \notin {"A", "B", "D", "M", "X", "MUSIC"}
    /\ probe.output.other_case = probe.output.plain
    /\ \A q \in DOMAIN probe.input.files_data :
          (q = probe.path \/ q = OtherCase(probe.path)) =>
            probe.output.plain = Some(probe.input.files_data[q].id)

C30_CapitalsFoundUnderLowercase ==
  /\ probe.fn = "id_for_relative_path" /\ probe.done
  /\ probe.path = <<"B">>
  /\ <<"B">> \in DOMAIN probe.input.files_data
  /\ DOMAIN probe.output.si.song_data = {<<"a">>, <<"b">>}
  /\ probe.output.plain = Some(2)
  /\ probe.output.other_case = Some(2)

\* The .m3u files at the root of the StarSync folder, before and after a step.
M3uFilesOnDevice == {f \in DOMAIN devLists : HasM3uExtension(f)}
M3uFilesAfterStep == {f \in DOMAIN devLists' : HasM3uExtension(f)}

\* The files of the push_playlist calls of this cycle that succeeded.
PushedInCycle ==
  {devLog[i].target :
     i \in {j \in DOMAIN devLog : devLog[j].op = "push_playlist" /\ devLog[j].ok}}

\* C31: update_playlists first deletes every .m3u file at the root of the
\* StarSync folder, regular lists and rating lists alike, and only then pushes:
\* without a failed call the .m3u files after the step are the files it
\* pushed and the other files are kept; after a cycle without failure the
\* .m3u files are the files pushed in this cycle, the list of an earlier cycle
\* is gone, and without include_ratings no rating list is left.
C31_ListsRemovedThenPushed ==
  /\ [][(UpdatePlaylistsStep /\ faults' = faults) =>
          LET new == NewDeviceCalls
          IN /\ \A f \in M3uFilesOnDevice :
                  \E i \in DOMAIN new : new[i].op = "delete_playlist" /\ new[i].target = f
             /\ \A i, j \in DOMAIN new :
                  (new[i].op = "delete_playlist" /\ new[j].op = "push_playlist") => i < j
             /\ M3uFilesAfterStep =
                  {new[i].target : i \in {j \in DOMAIN new : new[j].op = "push_playlist"}}
             /\ \A f \in DOMAIN devLists \ M3uFilesOnDevice :
                  f \in DOMAIN devLists' /\ devLists'[f] = devLists[f]]_vars
  /\ []((ReturnedOk /\ faults = 0) =>
          /\ M3uFilesOnDevice = PushedInCycle
          /\ OldList \notin DOMAIN devLists
          /\ ~config.include_ratings => \A f \in DOMAIN devLists : ClassifyStars(f) = 0)

C31_OldListAndRatingListsGone ==
  /\ ReturnedOk /\ faults = 0
  /\ ~config.include_ratings
  /\ DOMAIN devLists = {SuitableFilename("P"), NotesFile}
  /\ \E i \in DOMAIN devLog : devLog[i] = [op |-> "delete_playlist", target |-> OldList, ok |-> TRUE, content |-> <<>>]
  /\ \E i \in DOMAIN devLog :
       devLog[i].op = "delete_playlist" /\ devLog[i].target = FavoritesPlaylistName(3)

\* The StarSync folder holds Old.m3u, a regular list, and the previous manifest
\* has no playlist of this file name.
OldListNotInManifest ==
  /\ IsSome(previous_sync_info)
  /\ OldList \in DOMAIN devLists
  /\ OldList \notin DOMAIN previous_sync_info[1].playlists

\* C32 as stated: such a list leads to no change_contents_to call, and the
\* warnings of the cycle are one more after the reverse sync of the playlists.
C32_IgnoredListWarned ==
  [][(ReverseSyncPlaylistsStep /\ faults' = faults /\ OldListNotInManifest) =>
       /\ \A i \in DOMAIN ccCalls' : ccCalls'[i].id # "Old"
       /\ n_warns' >= n_warns + 1]_vars

\* C32: a regular .m3u file of the device whose file name is no playlist of
\* the previous manifest is skipped with an info message: it leads to no
\* change_contents_to call, and the warnings of the cycle stay as they are.
C32_IgnoredListNotWarned ==
  [][(ReverseSyncPlaylistsStep /\ faults' = faults /\ OldListNotInManifest) =>
       /\ \A i \in DOMAIN ccCalls' : ccCalls'[i].id # "Old"
       /\ srcLists' = [srcLists EXCEPT !["P"] = srcLists'["P"]]
       /\ n_warns' = n_warns
       /\ warnSent' = warnSent]_vars

C32_OldListSkippedSilently ==
  /\ pc \in {"reverse_sync_ratings", "required_files"}
  /\ faults = 0
  /\ OldListNotInManifest
  /\ "Old" \in DOMAIN srcLists /\ srcLists["Old"].tracks = <<>>
  /\ devLists[OldList] = <<MusicFolder \o TrackRel(1)>>
  /\ ccCalls = <<>>
  /\ n_warns = 0

\* The previous manifest has the playlist of Old.m3u, the device has the file,
\* and the source has no playlist of this id.
OldListNotInSource ==
  /\ IsSome(previous_sync_info)
  /\ OldList \in DOMAIN devLists
  /\ OldList \in DOMAIN previous_sync_info[1].playlists
  /\ "Old" \notin DOMAIN srcLists

\* C33 as stated: the merge of such a playlist is skipped without a
\* change_contents_to call and without a warning.
C33_MissingPlaylistSilent ==
  [][(ReverseSyncPlaylistsStep /\ faults' = faults /\ OldListNotInSource) =>
       /\ \A i \in DOMAIN ccCalls' : ccCalls'[i].id # "Old"
       /\ n_warns' = n_warns]_vars

\* C33: when a playlist of the previous manifest is not found in the source by
\* its id, its merge is skipped: no change_contents_to call is made for it,
\* and one warning is counted.
C33_MissingPlaylistWarned ==
  [][(ReverseSyncPlaylistsStep /\ faults' = faults /\ OldListNotInSource) =>
       /\ \A i \in DOMAIN ccCalls' : ccCalls'[i].id # "Old"
       /\ "Old" \notin DOMAIN srcLists'
       /\ n_warns' = n_warns + 1]_vars

C33_OldListWarnedOnce ==
  /\ pc \in {"reverse_sync_ratings", "required_files"}
  /\ faults = 0
  /\ OldListNotInSource
  /\ ccCalls = <<>>
  /\ n_warns = 1

\* The rating-absent bucket as the specification gives it: the ids of the
\* files of the device that the manifest knows, without the five buckets.
RatingAbsentBucket(si) ==
  {si.song_data[k].id :
     k \in {ToLower(p) : p \in files_on_device} \cap DOMAIN si.song_data}
    \ UNION {DeviceBucket(si, n) : n \in 1..5}

\* C34: in a reverse_sync_ratings without a failed call on five sound rating
\* lists, a track of the rating-absent bucket gets one set_rating(None) when
\* the manifest holds a rating for it that the source still holds, and no call
\* otherwise; a track in no rating list whose file is not on the device gets no
\* set_rating call and keeps its rating on the source.
C34_UnratedAreFilesWithoutList ==
  [][(/\ ReverseSyncRatingsStep /\ faults' = faults
      /\ IsSome(previous_sync_info)
      /\ RatingListsSound(previous_sync_info[1])) =>
       LET si == previous_sync_info[1]
           new == NewRatingCalls
       IN \A t \in TrackIds :
            LET made == {i \in DOMAIN new : new[i].id = t}
                m == RatingForId(si, t)
            IN /\ t \in RatingAbsentBucket(si) =>
                    /\ OnDevice(si, t) /\ DeviceRatings(si, t) = {}
                    /\ made # {} <=> /\ m # 0
                                     /\ t \in DOMAIN srcTracks
                                     /\ TrackRating(t, config.use_computed_ratings) = m
                    /\ \A i \in made : new[i].rating = 0 /\ new[i].ok
                    /\ made # {} => srcTracks'[t].rating = 0
                    /\ Cardinality(made) <= 1
               /\ (DeviceRatings(si, t) = {} /\ t \notin RatingAbsentBucket(si)) =>
                    /\ ~OnDevice(si, t)
                    /\ made = {}
                    /\ t \in DOMAIN srcTracks => srcTracks'[t] = srcTracks[t]]_vars

C34_RatingRemovedOnSource ==
  /\ pc = "required_files"
  /\ faults = 0
  /\ IsSome(previous_sync_info)
  /\ 1 \in RatingAbsentBucket(previous_sync_info[1])
  /\ TrackRel(1) \notin files_on_device
  /\ RatingForId(previous_sync_info[1], 1) = 3
  /\ srCalls = <<[id |-> 1, rating |-> 0, ok |-> TRUE]>>
  /\ srcTracks[1].rating = 0

\* The attempts of change_contents_to of iTunes: never more than MaxAttempts,
\* another attempt only after fewer failed ones, Err only after a failed
\* attempt, and an attempt counted by each step that starts another one; and
\* when no call failed but for the bug worked around, Ok leaves new_content,
\* whatever the failed attempts left.
RetriedEditEndsInNewContent ==
  /\ [](edit.attempts <= MaxAttempts)
  /\ [](edit.pc \in {"required", "remaining"} => edit.attempts < MaxAttempts)
  /\ [](edit.pc = "Err" => edit.attempts >= 1)
  /\ []((edit.pc = "Err" /\ faults = 0) => edit.attempts = MaxAttempts)
  /\ []((edit.pc = "Ok" /\ faults = 0) => edit.list = edit.new_content)
  /\ [][edit'.attempts \in {edit.attempts, edit.attempts + 1}]_vars

\* C35 as stated: change_contents_to of iTunes makes at most MaxAttempts
\* attempts, and when it returns Ok after failed attempts the tracks of the
\* playlist are new_content.
C35_OkAfterRetriesIsNewContent ==
  /\ edit.attempts <= MaxAttempts
  /\ (edit.source = "itunes" /\ edit.pc = "Ok" /\ edit.attempts >= 1) =>
        edit.list = edit.new_content

\* The step in which cli_sync_device, asked for a mismatch of the hostnames,
\* sends the validator back.
CliAnswersPrompt ==
  /\ cli.pc = "recv" /\ cli'.pc = "status"
  /\ outbound # <<>>
  /\ IsSome(Head(outbound).last_sync_computer_mismatch)

\* C36 as stated: after y and Enter the validator is sent back with the
\* mismatch cleared, and after any other line as it was received (a y that the
\* end of the input follows is left open).
C36_YesEnterClearsMismatch ==
  [][CliAnswersPrompt =>
       LET sent == inbound'[Len(inbound')]
       IN /\ cli'.user_input \in {<<"y", "\n">>, <<"y", "\r", "\n">>} =>
               sent.last_sync_computer_mismatch = NoneV
          /\ cli'.user_input \notin {<<"y", "\n">>, <<"y", "\r", "\n">>, <<"y">>} =>
               sent = Head(outbound)]_vars

\* C37: for a device without readable manifest the validator is valid as it
\* is built, so that no answer of the driver ends the cycle with SanityChecks,
\* and no step of the cycle calls change_contents_to or set_rating or changes
\* the source, whatever lists the device holds.
C37_NoManifestNoReverseSync ==
  /\ [](mgrInfo = NoneV =>
          /\ \A i \in DOMAIN outbound : IsValid(outbound[i])
          /\ \A i \in DOMAIN inbound : IsValid(inbound[i])
          /\ result # ErrOf("SanityChecks"))
  /\ [][(devInfo = NoneV /\ previous_sync_info' = NoneV) =>
          /\ ccCalls' = ccCalls
          /\ srCalls' = srCalls
          /\ srcLists' = srcLists /\ srcTracks' = srcTracks]_vars
  /\ []((mgrInfo = NoneV /\ pc \notin {"new", "recv", "panicked"}
          /\ result.tag # "Err" /\ ~IsSome(previous_sync_info)) =>
          ccCalls = <<>> /\ srCalls = <<>>)

C37_ListsOfDeviceLeftUnread ==
  /\ mgrInfo = NoneV /\ ~IsSome(previous_sync_info)
  /\ pc = "required_files"
  /\ faults = 0
  /\ "ReverseSyncRatings" \in Range(progress)
  /\ devLists[SuitableFilename("P")] # CreateM3u([i \in DOMAIN srcLists["P"].tracks |->
                                                    TrackRel(srcLists["P"].tracks[i])],
                                                 MusicFolder)
  /\ MusicFolder \o TrackRel(1) \in Range(devLists[FavoritesPlaylistName(5)])
  /\ srcTracks[1].rating = 3
  /\ ccCalls = <<>> /\ srCalls = <<>>

\* The calls on music files of the device: pushes and removals.
MusicFileCalls(log) ==
  {i \in DOMAIN log : log[i].op \in {"push_file", "delete_file"}}

TracksOf(fs) == {fs.files_data[r].id : r \in DOMAIN fs.files_data}

WithPath == Range(srcLists["P"].tracks) \ pathErrs'

\* Every track of the source is below LibraryRoot.
OneRoot == \A t \in DOMAIN srcTracks : IsSome(StripPrefix(srcTracks[t].path, LibraryRoot))

C40_DriverAndWorkerEnd ==
  /\ (cli.pc = "status") ~> (cli.pc = "ended")
  /\ [](cli.pc = "ended" /\ cli.read > 0 => pc \in {"returned", "panicked"})
  /\ [](cli.pc = "join" =>
          \/ pc \in {"returned", "panicked"}
          \/ progress[cli.read] = "Done")
  /\ [](cli.pc = "status" /\ pc = "recv" => inbound # <<>>)

C40_EndedWithoutDone ==
  /\ cli.pc = "ended"
  /\ result = ErrOf("SanityChecks")
  /\ cli.user_input = <<"n", "\n">>
  /\ "Done" \notin Range(progress)
  /\ exit_code = Some(0)
====
